---------------------------- MODULE Spec2Model ----------------------------
(***************************************************************************)
(* Model of the authentication service (auth engine, persistent store,    *)
(* ephemeral store, credential signer) and of the schema migrator.        *)
(*                                                                         *)
(* Requests are processes that take one step per store call (every call   *)
(* to the database or to Redis is a suspension point); local computation  *)
(* is folded into the store call next to it, and so is the insert into    *)
(* login_attempts, whose rows and errors no handler reads.  Time is the   *)
(* wall clock in seconds: tokens carry iat/exp in whole seconds.          *)
(***************************************************************************)
EXTENDS Integers, Sequences, FiniteSets, TLC

(***************************************************************************)
(* Bounds of the model.                                                    *)
(***************************************************************************)
MaxTicks == 2
MaxCalls == 3
MaxSerialCalls == 4
MaxHandlerCalls == 3
MaxLoginCalls == 6
MaxFaults == 1
MaxRuns == 2
MaxEdits == 1
BodyLen == 2

(***************************************************************************)
(* Program constants (seconds).                                            *)
(***************************************************************************)
LockoutSeconds == 900
LockoutThreshold == 5
BlacklistTTL == 900
RefreshStoreTTL == 604800
RefreshExpiry == 604800
DefaultAccessExpiry == 900
SessionTTL == 900

Procs == {"p1", "p2"}

\* Access lifetimes the configuration may set (jwt.access_expiry): the
\* default of 15 minutes and a longer one of 30 minutes.
AccessExpiries == {DefaultAccessExpiry, 2 * DefaultAccessExpiry}

\* Steps of the wall clock: one second, and one lockout/blacklist period.
TickSteps == {1, LockoutSeconds}

Emails == {"a@x", "A@x"}
Usernames == {"a", "b"}
Passwords == {"pw", "bad"}

NoTime == -1

VARIABLES
    now,            \* wall clock, seconds
    ticks,          \* clock steps taken
    accessExpiry,   \* config.JWT.AccessExpiry, seconds
    secrets,        \* config.JWT.AccessSecret and config.JWT.RefreshSecret
    users,          \* table users: sequence of rows, row i has id i
    sessions,       \* table sessions: set of rows
    loginAttempts,  \* table login_attempts: sequence of rows
    refreshStore,   \* Redis keys refresh_token:<hash>
    blacklist,      \* Redis keys blacklist:<hash>
    faults,         \* Redis transport errors injected so far
    calls,          \* requests started so far
    env,            \* the run: requests, faults and clock steps to come, client emails
    pc,             \* per process: position in its handler
    loc,            \* per process: locals of the running handler
    last,           \* the call that completed most recently
    issued,         \* tokens handed to clients so far
    redeemed,       \* refresh tokens a refresh call succeeded with
    redeemedAgain,  \* ... succeeded with more than once
    freshRotated,   \* refresh tokens returned by a refresh, not yet presented
    usedRotated,    \* refresh tokens returned by a refresh, presented since
    loggedOut,      \* access tokens a successful logout was given
    preLogout,      \* refresh tokens issued to a user before a successful logout
    wrongCount,     \* per user id: wrong-password attempts since the last reset
    lastWrongAt,    \* per user id: time of the last wrong-password attempt
    registeredOk,   \* request emails a register call succeeded with
    registerIssued, \* refresh tokens returned by a register call
    mdir,           \* migrations directory: version -> artifact
    schema,         \* committed schema objects of the database
    tracking,       \* committed rows of schema_migrations
    tx,             \* the migrator's database session
    menv,           \* MigrationManager.environment
    mpc,            \* position of the migrator
    mpending,       \* pending migrations ApplyMigrations still has to apply
    mresults,       \* results of the ApplyMigrations call
    mruns,          \* ApplyMigrations calls so far
    mpre,           \* committed database when the last applyMigration began
    mrun,           \* the ApplyMigrations call at hand: what it planned and ran
    medits,         \* edits of artifact files so far
    mvalid,         \* outcome of the last ValidateSchema call
    boot,           \* the service process: position of main, its connection loop, its handles
    prof,           \* the UpdateProfile call that completed most recently
    sv,             \* the ValidateTable call that completed most recently
    cm,             \* migration managers running side by side on one database
    docker,         \* the Docker initialisation runner
    sm,             \* shared SessionManager: its Redis keys and its callers
    bus,            \* shared EventBus: subscriptions and deliveries
    rm              \* shared RedisManager: rate-limit counters, locks and callers

authVars == <<now, ticks, accessExpiry, secrets, users, sessions, loginAttempts,
              refreshStore, blacklist, faults, calls, env, pc, loc, last,
              issued, redeemed, redeemedAgain, freshRotated, usedRotated,
              loggedOut, preLogout, wrongCount, lastWrongAt, registeredOk,
              registerIssued>>

migVars == <<mdir, schema, tracking, tx, menv, mpc, mpending, mresults, mruns,
             mpre, mrun, medits, mvalid>>

bootVars == <<boot>>

profVars == <<prof>>

valVars == <<sv>>

libVars == <<cm, docker, sm, bus, rm>>

sysVars == <<bootVars, profVars, valVars, libVars>>

vars == <<authVars, migVars, sysVars>>

(***************************************************************************)
(* Pure helpers.                                                           *)
(***************************************************************************)

\* strings.ToLower on the request emails of the model.
ToLower(e) == IF e = "A@x" THEN "a@x" ELSE e

\* bcrypt: the hash of a password, and its verification.
hashPassword(pw) == <<"bcrypt", pw>>
\* A verification that accepts every password.
verifyPassword_Any(pw, hash) == TRUE
verifyPassword(pw, hash) == hash = hashPassword(pw)

NoTok == [user_id |-> 0, email |-> "", typ |-> "none", iat |-> 0, exp |-> 0,
          key |-> "none"]

\* jwtService.GenerateAccessToken: the claims and the signing secret determine
\* the signed string, so the token is the record of them.
GenerateAccessToken(user, t) ==
    [user_id |-> user.id, email |-> user.email, typ |-> "access",
     iat |-> t, exp |-> t + accessExpiry, key |-> secrets.access]

GenerateRefreshToken(user, t) ==
    [user_id |-> user.id, email |-> user.email, typ |-> "refresh",
     iat |-> t, exp |-> t + RefreshExpiry, key |-> secrets.refresh]

\* A validation of access tokens that does not verify the signature.
ValidateToken_AnyKey(tok, t) ==
    /\ t < tok.exp
    /\ tok.typ = "access"

\* jwtService.ValidateToken: signature, expiration, then the type claim.
ValidateToken(tok, t) ==
    /\ tok.key = secrets.access
    /\ t < tok.exp
    /\ tok.typ = "access"

ValidateRefreshToken(tok, t) ==
    /\ tok.key = secrets.refresh
    /\ t < tok.exp
    /\ tok.typ = "refresh"

\* jwtService.HashToken: SHA-256, one digest per token string.
HashToken(tok) == <<"sha256", tok>>


(***************************************************************************)
(* Persistent store: rows and queries.                                     *)
(***************************************************************************)

NoUser == [id |-> 0, email |-> "", username |-> "",
           password_hash |-> <<"bcrypt", "">>, is_active |-> FALSE,
           failed_login_attempts |-> 0, locked_until |-> NoTime,
           last_login_at |-> NoTime, deleted |-> FALSE]

\* The row authService.Register builds and userRepository.Create inserts.
NewUser(id, email, username, pw) ==
    [id |-> id, email |-> ToLower(email), username |-> username,
     password_hash |-> hashPassword(pw), is_active |-> TRUE,
     failed_login_attempts |-> 0, locked_until |-> NoTime,
     last_login_at |-> NoTime, deleted |-> FALSE]

\* userRepository.GetByEmail: email = ? AND is_active (soft-deleted rows hidden).
GetByEmail(email) ==
    {i \in DOMAIN users : /\ users[i].email = email
                          /\ users[i].is_active
                          /\ ~users[i].deleted}

\* A lookup by id that also returns inactive and soft-deleted rows.
GetByID_AnyRow(id) == {i \in DOMAIN users : i = id}

\* userRepository.GetByID: id = ? AND is_active (soft-deleted rows hidden).
GetByID(id) ==
    {i \in DOMAIN users : i = id /\ users[i].is_active /\ ~users[i].deleted}

\* userRepository.IsEmailTaken: COUNT(email = ?) > 0, the argument as given.
IsEmailTaken(email) ==
    \E i \in DOMAIN users : users[i].email = email /\ ~users[i].deleted

IsUsernameTaken(username) ==
    \E i \in DOMAIN users : users[i].username = username /\ ~users[i].deleted

\* The UNIQUE constraints of table users (001_initial_schema.sql): the name of
\* the constraint an insert of the row violates, or "" when it violates none.
UsersUniqueViolation(row) ==
    IF \E i \in DOMAIN users : users[i].email = row.email
    THEN "users_email_key"
    ELSE IF \E i \in DOMAIN users : users[i].username = row.username
         THEN "users_username_key"
         ELSE ""

\* userRepository.Update: db.Save writes every column of the row.
Update(user) == [users EXCEPT ![user.id] = user]

\* Trigger update_users_updated_at, BEFORE UPDATE ON users FOR EACH ROW:
\* NEW.updated_at = NOW().  (Only the rows of the profile runs are written
\* with their updated_at column.)
update_updated_at_column(row, t) ==
    [k \in DOMAIN row |-> IF k = "updated_at" THEN t ELSE row[k]]

\* userRepository.UpdateLastLogin: UPDATE ... SET last_login_at WHERE id = ?
\* AND deleted_at IS NULL.
UpdateLastLogin(id, t) ==
    IF users[id].deleted THEN users
    ELSE [users EXCEPT ![id] =
             update_updated_at_column([@ EXCEPT !.last_login_at = t], t)]

\* User.IsLocked, User.CanAttemptLogin.
IsLocked(u, t) == u.locked_until # NoTime /\ t < u.locked_until
CanAttemptLogin(u, t) == u.is_active /\ ~IsLocked(u, t)

\* User.IncrementFailedAttempts (on the in-memory copy).
IncrementFailedAttempts(u, t) ==
    LET n == u.failed_login_attempts + 1
    IN  [u EXCEPT !.failed_login_attempts = n,
                  !.locked_until = IF n >= LockoutThreshold
                                   THEN t + LockoutSeconds
                                   ELSE u.locked_until]

\* ResetFailedAttempts that leaves the lock in place.
ResetFailedAttempts_KeepLock(u) == [u EXCEPT !.failed_login_attempts = 0]

\* User.ResetFailedAttempts (on the in-memory copy).
ResetFailedAttempts(u) ==
    [u EXCEPT !.failed_login_attempts = 0, !.locked_until = NoTime]

\* userRepository.CreateLoginAttempt: one more row of the audit log.
CreateLoginAttempt(email, success) ==
    Append(loginAttempts, [email |-> email, success |-> success])

\* The session row authService.Login inserts.
NewSession(user, access, refresh, t) ==
    [user_id |-> user.id, refresh_token |-> HashToken(refresh),
     access_token_hash |-> HashToken(access),
     expires_at |-> t + SessionTTL, is_revoked |-> FALSE]

\* sessions.refresh_token is UNIQUE NOT NULL (001_initial_schema.sql).
SessionsUniqueViolation(row) ==
    \E s \in sessions : s.refresh_token = row.refresh_token

\* sessionRepository.RevokeAllUserSessions.
RevokeAllUserSessions(id) ==
    {IF s.user_id = id THEN [s EXCEPT !.is_revoked = TRUE] ELSE s : s \in sessions}

(***************************************************************************)
(* Ephemeral store (Redis): keys with a time to live.                      *)
(***************************************************************************)

\* SET key value EX ttl: last writer wins.
RedisSet(store, entry) == {e \in store : e.key # entry.key} \cup {entry}
\* DEL key.
RedisDel(store, key) == {e \in store : e.key # key}
\* GET key: the live entries under the key (none: redis.Nil).
RedisGet(store, key, t) == {e \in store : e.key = key /\ t < e.expires}

\* sessionRepository.StoreRefreshToken.
StoreRefreshToken(id, hash, ttl) ==
    RedisSet(refreshStore, [key |-> hash, user_id |-> id, expires |-> now + ttl])
\* sessionRepository.GetRefreshTokenData: the user ids stored under the hash.
GetRefreshTokenData(hash) ==
    {e.user_id : e \in RedisGet(refreshStore, hash, now)}
\* sessionRepository.DeleteRefreshToken.
DeleteRefreshToken(hash) == RedisDel(refreshStore, hash)
\* sessionRepository.BlacklistToken.
BlacklistToken(hash, ttl) ==
    RedisSet(blacklist, [key |-> hash, expires |-> now + ttl])
\* sessionRepository.IsTokenBlacklisted (without a transport error).
IsTokenBlacklisted(hash) == RedisGet(blacklist, hash, now) # {}

\* What is true of a token when a request presents it: it is an unexpired
\* access bundle signed with the access secret; a live blacklist key holds its
\* hash; the row of its user exists, is active and is not deleted.
AccessBundleOk(tok) ==
    tok.typ = "access" /\ tok.key = secrets.access /\ now < tok.exp
Blacklisted(tok) ==
    \E e \in blacklist : e.key = HashToken(tok) /\ now < e.expires
UserActive(id) ==
    \E i \in DOMAIN users : i = id /\ users[i].is_active /\ ~users[i].deleted

\* Whether the next Redis call may meet a transport error.
FaultChoices == IF faults < env.faults THEN {FALSE, TRUE} ELSE {FALSE}

(***************************************************************************)
(* Requests in flight.                                                     *)
(***************************************************************************)

\* Locals of a handler: the request, what it read, what it generated, whether
\* a Redis call of it met a transport error, and what was true of its
\* arguments when it started (pre) or of the store when it started (snap).
NoLoc == [op |-> "none", email |-> "", username |-> "", password |-> "",
          tok |-> NoTok, user |-> NoUser, access |-> NoTok, refresh |-> NoTok,
          fault |-> FALSE, pre |-> {}, snap |-> {}]

NoCall == [op |-> "none", email |-> "", tok |-> NoTok, out |-> "none",
           detail |-> "", fault |-> FALSE, pre |-> {}, access |-> NoTok,
           refresh |-> NoTok]

Idle(p) == pc[p] = "idle"

\* A request may start while the run has requests left.
CanStart(p) == Idle(p) /\ calls < env.calls

storeVars == <<users, sessions, loginAttempts, refreshStore, blacklist>>
clockVars == <<now, ticks>>
cfgVars == <<accessExpiry, secrets, env>>
histVars == <<issued, redeemed, redeemedAgain, freshRotated, usedRotated,
              loggedOut, preLogout, registeredOk, registerIssued>>
loginHist == <<wrongCount, lastWrongAt>>

\* The handler of p goes on to position next with locals l.
Continue(p, l, next) ==
    /\ pc' = [pc EXCEPT ![p] = next]
    /\ loc' = [loc EXCEPT ![p] = l]
    /\ last' = IF Idle(p) THEN NoCall ELSE last
    /\ UNCHANGED <<histVars, migVars, sysVars>>

\* The handler of p returns outcome out (detail: the error text where the
\* outcome does not fix it) and, on success, the tokens a and r.
Return(p, l, out, detail, a, r) ==
    LET ok == out = "ok"
        redeem == ok /\ l.op = "refresh"
        presented == l.op = "refresh" /\ l.tok \in freshRotated \cup usedRotated
                     /\ (ok \/ ~l.fault)
    IN
    /\ pc' = [pc EXCEPT ![p] = "idle"]
    /\ loc' = [loc EXCEPT ![p] = NoLoc]
    /\ last' = [op |-> l.op, email |-> l.email, tok |-> l.tok, out |-> out,
                detail |-> detail, fault |-> l.fault, pre |-> l.pre,
                access |-> a, refresh |-> r]
    /\ issued' = IF ok THEN issued \cup ({a, r} \ {NoTok}) ELSE issued
    /\ redeemed' = IF redeem THEN redeemed \cup {l.tok} ELSE redeemed
    /\ redeemedAgain' = IF redeem /\ l.tok \in redeemed
                        THEN redeemedAgain \cup {l.tok} ELSE redeemedAgain
    /\ freshRotated' = (IF presented THEN freshRotated \ {l.tok} ELSE freshRotated)
                          \cup (IF redeem THEN {r} ELSE {})
    /\ usedRotated' = (IF presented THEN usedRotated \cup {l.tok} ELSE usedRotated)
                          \ (IF redeem THEN {r} ELSE {})
    /\ loggedOut' = IF ok /\ l.op = "logout"
                    THEN loggedOut \cup {l.tok} ELSE loggedOut
    /\ preLogout' = IF ok /\ l.op = "logout"
                    THEN preLogout \cup l.snap ELSE preLogout
    /\ registeredOk' = IF ok /\ l.op = "register"
                       THEN registeredOk \cup {l.email} ELSE registeredOk
    /\ registerIssued' = IF ok /\ l.op = "register"
                         THEN registerIssued \cup {r} ELSE registerIssued
    /\ UNCHANGED <<migVars, sysVars>>

Started(p) == calls' = IF Idle(p) THEN calls + 1 ELSE calls

(***************************************************************************)
(* authService.Register                                                    *)
(***************************************************************************)

\* IsEmailTaken(req.Email).
RegisterEmail(p) ==
    /\ CanStart(p)
    /\ \E email \in env.emails, username \in Usernames :
         LET l == [NoLoc EXCEPT !.op = "register", !.email = email,
                                !.username = username, !.password = "pw"]
         IN  IF IsEmailTaken(email)
             THEN Return(p, l, "EmailTaken", "email already exists", NoTok, NoTok)
             ELSE Continue(p, l, "reg_username")
    /\ Started(p)
    /\ UNCHANGED <<storeVars, clockVars, cfgVars, loginHist, faults>>

\* IsUsernameTaken(req.Username).
RegisterUsername(p) ==
    /\ pc[p] = "reg_username"
    /\ IF IsUsernameTaken(loc[p].username)
       THEN Return(p, loc[p], "UsernameTaken", "username already exists", NoTok, NoTok)
       ELSE Continue(p, loc[p], "reg_create")
    /\ UNCHANGED <<storeVars, clockVars, cfgVars, loginHist, faults, calls>>

\* hashPassword, userRepo.Create, GenerateTokenPair.  The insert fails on a
\* UNIQUE constraint of the table and the driver's error is returned as is.
RegisterCreate(p) ==
    /\ pc[p] = "reg_create"
    /\ LET l == loc[p]
           row == NewUser(Len(users) + 1, l.email, l.username, l.password)
           violated == UsersUniqueViolation(row)
       IN  IF violated # ""
           THEN /\ Return(p, l, "StorageError", violated, NoTok, NoTok)
                /\ UNCHANGED <<users, wrongCount, lastWrongAt>>
           ELSE /\ users' = Append(users, row)
                /\ wrongCount' = Append(wrongCount, 0)
                /\ lastWrongAt' = Append(lastWrongAt, NoTime)
                /\ Return(p, l, "ok", "", GenerateAccessToken(row, now),
                          GenerateRefreshToken(row, now))
    /\ UNCHANGED <<sessions, loginAttempts, refreshStore, blacklist, clockVars,
                   cfgVars, faults, calls>>

(***************************************************************************)
(* authService.Login                                                       *)
(***************************************************************************)

\* GetByEmail(ToLower(req.Email)), then CanAttemptLogin on the row read.  The
\* audit row of a refused attempt is written by the next step.
LoginStart(p) ==
    /\ CanStart(p)
    /\ \E email \in env.emails, pw \in Passwords :
         LET found == GetByEmail(ToLower(email))
             rows == {i \in DOMAIN users : /\ users[i].email = ToLower(email)
                                            /\ ~users[i].deleted}
             absent == IF rows = {} THEN {"noRow"}
                       ELSE IF \E i \in rows : ~users[i].is_active
                       THEN {"inactiveRow"} ELSE {}
             l0 == [NoLoc EXCEPT !.op = "login", !.email = email, !.password = pw,
                                 !.pre = absent]
         IN  IF found = {}
             THEN Continue(p, l0, "login_miss")
             ELSE LET u == users[CHOOSE i \in found : TRUE]
                      flags ==
                          (IF /\ wrongCount[u.id] >= LockoutThreshold
                              /\ now < lastWrongAt[u.id] + LockoutSeconds
                           THEN {"inWindow"} ELSE {})
                          \cup (IF u.locked_until # NoTime /\ now >= u.locked_until
                                THEN {"lockElapsed"} ELSE {})
                          \cup (IF u.password_hash = hashPassword(pw)
                                THEN {"pwOk"} ELSE {})
                          \cup (IF IsLocked(u, now) THEN {"locked"} ELSE {})
                          \cup {"known"}
                      l1 == [l0 EXCEPT !.user = u, !.pre = flags]
                  IN  IF ~CanAttemptLogin(u, now)
                      THEN Continue(p, l1, "login_refused")
                      ELSE Continue(p, l1, "login_verify")
    /\ Started(p)
    /\ UNCHANGED <<users, sessions, loginAttempts, refreshStore, blacklist,
                   clockVars, cfgVars, loginHist, faults>>

\* userRepo.CreateLoginAttempt, and what Login does after it: the error
\* return of a refused attempt (IsLocked reads the clock again), or
\* GenerateTokenPair after the row of a successful one.
LoginAudit(p) ==
    /\ pc[p] \in {"login_miss", "login_refused", "login_wrong", "login_audit"}
    /\ loginAttempts' = CreateLoginAttempt(loc[p].email, pc[p] = "login_audit")
    /\ CASE pc[p] = "login_audit" -> Continue(p, loc[p], "login_store")
         [] pc[p] = "login_refused" ->
              IF IsLocked(loc[p].user, now)
              THEN Return(p, loc[p], "Locked",
                          "account is temporarily locked", NoTok, NoTok)
              ELSE Return(p, loc[p], "Inactive",
                          "account is inactive", NoTok, NoTok)
         [] OTHER -> Return(p, loc[p], "InvalidCredentials",
                            "invalid credentials", NoTok, NoTok)
    /\ UNCHANGED <<users, sessions, refreshStore, blacklist, clockVars, cfgVars,
                   loginHist, faults, calls>>

\* verifyPassword on the row read; on a mismatch IncrementFailedAttempts on
\* the copy and userRepo.Update(copy); on a match
\* ResetFailedAttempts and userRepo.Update(copy) when the copy's counter is
\* positive.
LoginVerify(p) ==
    /\ pc[p] = "login_verify"
    /\ LET l == loc[p]
           u == l.user
       IN  IF ~verifyPassword(l.password, u.password_hash)
           THEN /\ users' = Update(IncrementFailedAttempts(u, now))
                /\ wrongCount' = [wrongCount EXCEPT ![u.id] = @ + 1]
                /\ lastWrongAt' = [lastWrongAt EXCEPT ![u.id] = now]
                /\ Continue(p, l, "login_wrong")
           ELSE IF u.failed_login_attempts > 0
                THEN /\ users' = Update(ResetFailedAttempts(u))
                     /\ wrongCount' = [wrongCount EXCEPT ![u.id] = 0]
                     /\ Continue(p, [l EXCEPT !.user = ResetFailedAttempts(u)],
                                 "login_last")
                     /\ UNCHANGED lastWrongAt
                ELSE /\ Continue(p, l, "login_last")
                     /\ UNCHANGED <<users, wrongCount, lastWrongAt>>
    /\ UNCHANGED <<sessions, loginAttempts, refreshStore, blacklist, clockVars,
                   cfgVars, faults, calls>>

\* userRepo.UpdateLastLogin.
LoginLast(p) ==
    /\ pc[p] = "login_last"
    /\ users' = UpdateLastLogin(loc[p].user.id, now)
    /\ Continue(p, loc[p], "login_audit")
    /\ UNCHANGED <<sessions, loginAttempts, refreshStore, blacklist, clockVars,
                   cfgVars, loginHist, faults, calls>>

\* GenerateTokenPair, then StoreRefreshToken(hash, 7 days).
LoginStore(p) ==
    /\ pc[p] = "login_store"
    /\ LET a == GenerateAccessToken(loc[p].user, now)
           r == GenerateRefreshToken(loc[p].user, now)
       IN  \E f \in FaultChoices :
             IF f
             THEN /\ faults' = faults + 1
                  /\ Return(p, [loc[p] EXCEPT !.fault = TRUE], "StorageError",
                            "redis", NoTok, NoTok)
                  /\ UNCHANGED refreshStore
             ELSE /\ refreshStore' =
                        StoreRefreshToken(loc[p].user.id, HashToken(r), RefreshStoreTTL)
                  /\ Continue(p, [loc[p] EXCEPT !.access = a, !.refresh = r],
                              "login_session")
                  /\ UNCHANGED faults
    /\ UNCHANGED <<users, sessions, loginAttempts, blacklist, clockVars, cfgVars,
                   loginHist, calls>>

\* sessionRepo.CreateSession: the insert fails when the refresh token hash is
\* already in the table.
LoginSession(p) ==
    /\ pc[p] = "login_session"
    /\ LET l == loc[p]
           row == NewSession(l.user, l.access, l.refresh, now)
       IN  IF SessionsUniqueViolation(row)
           THEN /\ Return(p, l, "StorageError", "sessions_refresh_token_key",
                          NoTok, NoTok)
                /\ UNCHANGED sessions
           ELSE /\ sessions' = sessions \cup {row}
                /\ Return(p, l, "ok", "", l.access, l.refresh)
    /\ UNCHANGED <<users, loginAttempts, refreshStore, blacklist, clockVars,
                   cfgVars, loginHist, faults, calls>>

(***************************************************************************)
(* authService.RefreshToken                                                *)
(***************************************************************************)

\* Refresh tokens a client may hold: those of the responses so far.
RefreshTokensIssued == {t \in issued : t.typ = "refresh"}
AccessTokensIssued == {t \in issued : t.typ = "access"}

\* ValidateRefreshToken, then IsTokenBlacklisted(hash).
RefreshStart(p) ==
    /\ CanStart(p)
    /\ \E tok \in issued :
         LET flags == (IF tok \in redeemed THEN {"replay"} ELSE {})
                      \cup (IF tok \in preLogout THEN {"revoked"} ELSE {})
                      \cup (IF tok \in freshRotated THEN {"first"} ELSE {})
                      \cup (IF tok \in usedRotated THEN {"later"} ELSE {})
                      \cup (IF tok \in registerIssued THEN {"registered"} ELSE {})
             l == [NoLoc EXCEPT !.op = "refresh", !.tok = tok, !.pre = flags]
         IN  IF ~ValidateRefreshToken(tok, now)
             THEN /\ Return(p, l, "InvalidToken", "invalid refresh token", NoTok, NoTok)
                  /\ UNCHANGED faults
             ELSE \E f \in FaultChoices :
                    IF f
                    THEN /\ faults' = faults + 1
                         /\ Return(p, [l EXCEPT !.fault = TRUE], "StorageError",
                                   "redis", NoTok, NoTok)
                    ELSE /\ UNCHANGED faults
                         /\ IF IsTokenBlacklisted(HashToken(tok))
                            THEN Return(p, l, "InvalidToken",
                                        "refresh token is blacklisted", NoTok, NoTok)
                            ELSE Continue(p, l, "rf_get")
    /\ Started(p)
    /\ UNCHANGED <<storeVars, clockVars, cfgVars, loginHist>>

\* GetRefreshTokenData(hash): any error is "refresh token not found"; the
\* stored user id must be the one of the claims.
RefreshGet(p) ==
    /\ pc[p] = "rf_get"
    /\ LET l == loc[p]
           ids == GetRefreshTokenData(HashToken(l.tok))
       IN  \E f \in FaultChoices :
             IF f
             THEN /\ faults' = faults + 1
                  /\ Return(p, [l EXCEPT !.fault = TRUE], "RefreshNotFound",
                            "refresh token not found", NoTok, NoTok)
             ELSE /\ UNCHANGED faults
                  /\ IF ids = {}
                     THEN Return(p, l, "RefreshNotFound", "refresh token not found",
                                 NoTok, NoTok)
                     ELSE IF ids # {l.tok.user_id}
                          THEN Return(p, l, "InvalidToken", "invalid refresh token",
                                      NoTok, NoTok)
                          ELSE Continue(p, l, "rf_user")
    /\ UNCHANGED <<storeVars, clockVars, cfgVars, loginHist, calls>>

\* userRepo.GetByID(stored user id).
RefreshUser(p) ==
    /\ pc[p] = "rf_user"
    /\ LET l == loc[p]
           found == GetByID(l.tok.user_id)
       IN  IF found = {}
           THEN Return(p, l, "UserNotFound", "user not found", NoTok, NoTok)
           ELSE Continue(p, [l EXCEPT !.user = users[CHOOSE i \in found : TRUE]],
                         "rf_store")
    /\ UNCHANGED <<storeVars, clockVars, cfgVars, loginHist, faults, calls>>

\* GenerateAccessToken, GenerateRefreshToken, StoreRefreshToken(new hash).
RefreshStore(p) ==
    /\ pc[p] = "rf_store"
    /\ LET l == loc[p]
           a == GenerateAccessToken(l.user, now)
           r == GenerateRefreshToken(l.user, now)
       IN  \E f \in FaultChoices :
             IF f
             THEN /\ faults' = faults + 1
                  /\ Return(p, [l EXCEPT !.fault = TRUE], "StorageError", "redis",
                            NoTok, NoTok)
                  /\ UNCHANGED refreshStore
             ELSE /\ refreshStore' =
                        StoreRefreshToken(l.user.id, HashToken(r), RefreshStoreTTL)
                  /\ Continue(p, [l EXCEPT !.access = a, !.refresh = r], "rf_delete")
                  /\ UNCHANGED faults
    /\ UNCHANGED <<users, sessions, loginAttempts, blacklist, clockVars, cfgVars,
                   loginHist, calls>>

\* DeleteRefreshToken(old hash), its error dropped; the response.
RefreshDelete(p) ==
    /\ pc[p] = "rf_delete"
    /\ LET l == loc[p]
       IN  \E f \in FaultChoices :
             IF f
             THEN /\ faults' = faults + 1
                  /\ Return(p, [l EXCEPT !.fault = TRUE], "ok", "", l.access, l.refresh)
                  /\ UNCHANGED refreshStore
             ELSE /\ refreshStore' = DeleteRefreshToken(HashToken(l.tok))
                  /\ Return(p, l, "ok", "", l.access, l.refresh)
                  /\ UNCHANGED faults
    /\ UNCHANGED <<users, sessions, loginAttempts, blacklist, clockVars, cfgVars,
                   loginHist, calls>>

(***************************************************************************)
(* authService.VerifyToken                                                 *)
(***************************************************************************)

\* ValidateToken, then IsTokenBlacklisted(hash); every failure is
\* {valid: false} without an error.
VerifyStart(p) ==
    /\ CanStart(p)
    /\ \E tok \in issued :
         LET flags == (IF tok \in loggedOut THEN {"afterLogout"} ELSE {})
                      \cup (IF AccessBundleOk(tok) THEN {"bundleOk"} ELSE {})
                      \cup (IF Blacklisted(tok) THEN {"blacklisted"} ELSE {})
                      \cup (IF UserActive(tok.user_id) THEN {"userOk"} ELSE {})
             l == [NoLoc EXCEPT !.op = "verify", !.tok = tok, !.pre = flags]
         IN  IF ~ValidateToken(tok, now)
             THEN /\ Return(p, l, "invalid", "", NoTok, NoTok)
                  /\ UNCHANGED faults
             ELSE \E f \in FaultChoices :
                    IF f
                    THEN /\ faults' = faults + 1
                         /\ Return(p, [l EXCEPT !.fault = TRUE], "invalid", "",
                                   NoTok, NoTok)
                    ELSE /\ UNCHANGED faults
                         /\ IF IsTokenBlacklisted(HashToken(tok))
                            THEN Return(p, l, "invalid", "", NoTok, NoTok)
                            ELSE Continue(p, l, "vf_user")
    /\ Started(p)
    /\ UNCHANGED <<storeVars, clockVars, cfgVars, loginHist>>

\* userRepo.GetByID(claims.UserID).
VerifyUser(p) ==
    /\ pc[p] = "vf_user"
    /\ IF GetByID(loc[p].tok.user_id) = {}
       THEN Return(p, loc[p], "invalid", "", NoTok, NoTok)
       ELSE Return(p, loc[p], "valid", "", NoTok, NoTok)
    /\ UNCHANGED <<storeVars, clockVars, cfgVars, loginHist, faults, calls>>

(***************************************************************************)
(* authService.Logout                                                      *)
(***************************************************************************)

\* BlacklistToken(hash, 15 minutes).  The caller passes the user id of the
\* verified access token.
LogoutBlacklist(p) ==
    /\ CanStart(p)
    /\ \E tok \in AccessTokensIssued :
         LET l == [NoLoc EXCEPT !.op = "logout", !.tok = tok,
                     !.snap = {r \in RefreshTokensIssued : r.user_id = tok.user_id}]
         IN  /\ ValidateToken(tok, now)
             /\ \E f \in FaultChoices :
                  IF f
                  THEN /\ faults' = faults + 1
                       /\ Return(p, [l EXCEPT !.fault = TRUE], "StorageError",
                                 "redis", NoTok, NoTok)
                       /\ UNCHANGED blacklist
                  ELSE /\ blacklist' = BlacklistToken(HashToken(tok), BlacklistTTL)
                       /\ Continue(p, l, "lo_revoke")
                       /\ UNCHANGED faults
    /\ Started(p)
    /\ UNCHANGED <<users, sessions, loginAttempts, refreshStore, clockVars,
                   cfgVars, loginHist>>

\* RevokeAllUserSessions(userID).
LogoutRevoke(p) ==
    /\ pc[p] = "lo_revoke"
    /\ sessions' = RevokeAllUserSessions(loc[p].tok.user_id)
    /\ Return(p, loc[p], "ok", "", NoTok, NoTok)
    /\ UNCHANGED <<users, loginAttempts, refreshStore, blacklist, clockVars,
                   cfgVars, loginHist, faults, calls>>

(***************************************************************************)
(* authService.DeleteAccount, called for the user of the access token that *)
(* the JWT middleware let through.                                         *)
(***************************************************************************)

\* JWTMiddleware.validateToken: signature with the access secret and
\* expiration; the type claim is not looked at.
AuthRequired(tok, t) == tok.key = secrets.access /\ t < tok.exp

\* The keys JWTMiddleware.setUserContext puts into the request context.
setUserContext ==
    {"user_id", "user_email", "user_username", "user_role", "user_roles", "claims"}

\* userRepository.Delete: soft delete, UPDATE users SET deleted_at = now
\* WHERE id = ? AND deleted_at IS NULL.  The UPDATE fires trigger
\* update_users_updated_at on the row it changes.
Delete(id, t) ==
    IF users[id].deleted THEN users
    ELSE [users EXCEPT ![id] =
             update_updated_at_column([@ EXCEPT !.deleted = TRUE], t)]

\* userRepo.GetByID(userID).
DeleteAccountGet(p) ==
    /\ CanStart(p)
    /\ \E tok \in issued :
         LET l == [NoLoc EXCEPT !.op = "delete", !.tok = tok]
         IN  /\ AuthRequired(tok, now)
             /\ IF GetByID(tok.user_id) = {}
                THEN Return(p, l, "UserNotFound", "user not found", NoTok, NoTok)
                ELSE Continue(p, l, "da_delete")
    /\ Started(p)
    /\ UNCHANGED <<storeVars, clockVars, cfgVars, loginHist, faults>>

\* userRepo.Delete(user.ID).
DeleteAccountDelete(p) ==
    /\ pc[p] = "da_delete"
    /\ users' = Delete(loc[p].tok.user_id, now)
    /\ Return(p, loc[p], "ok", "", NoTok, NoTok)
    /\ UNCHANGED <<sessions, loginAttempts, refreshStore, blacklist, clockVars,
                   cfgVars, loginHist, faults, calls>>

\* authService.ChangePassword: userRepo.GetByID, the check of the current
\* password, and the new hash set on the in-memory copy of the row.
ChangePasswordGet(p) ==
    /\ CanStart(p)
    /\ \E id \in DOMAIN users, current \in Passwords, new \in Passwords :
         LET l == [NoLoc EXCEPT !.op = "changePassword", !.password = new]
         IN  IF GetByID(id) = {}
             THEN Return(p, l, "UserNotFound", "user not found", NoTok, NoTok)
             ELSE IF ~verifyPassword(current, users[id].password_hash)
             THEN Return(p, l, "InvalidPassword", "invalid current password",
                         NoTok, NoTok)
             ELSE Continue(p, [l EXCEPT !.user =
                                  [users[id] EXCEPT !.password_hash = hashPassword(new)]],
                           "cp_update")
    /\ Started(p)
    /\ UNCHANGED <<storeVars, clockVars, cfgVars, loginHist, faults>>

\* authService.ChangePassword: userRepo.Update(user).
ChangePasswordUpdate(p) ==
    /\ pc[p] = "cp_update"
    /\ users' = Update(loc[p].user)
    /\ Return(p, loc[p], "ok", "", NoTok, NoTok)
    /\ UNCHANGED <<sessions, loginAttempts, refreshStore, blacklist, clockVars,
                   cfgVars, loginHist, faults, calls>>

(***************************************************************************)
(* The HTTP handlers of /logout and /verify.                               *)
(***************************************************************************)

\* POST /logout behind JWTMiddleware.AuthRequired: AuthHandler.Logout reads
\* the token from the request context, verifies it and calls
\* authService.Logout.  The outcome is the status of the response.
AuthHandlerLogout(p) ==
    /\ CanStart(p)
    /\ \E tok \in issued :
         LET flags == (IF AccessBundleOk(tok) THEN {"bundleOk"} ELSE {})
                      \cup (IF Blacklisted(tok) THEN {"blacklisted"} ELSE {})
                      \cup (IF UserActive(tok.user_id) THEN {"userOk"} ELSE {})
             l == [NoLoc EXCEPT !.op = "POST /logout", !.tok = tok, !.pre = flags]
             valid == /\ ValidateToken(tok, now)
                      /\ ~IsTokenBlacklisted(HashToken(tok))
                      /\ GetByID(tok.user_id) # {}
         IN  IF ~AuthRequired(tok, now)
             THEN /\ Return(p, l, "401", "Unauthorized", NoTok, NoTok)
                  /\ UNCHANGED <<blacklist, sessions>>
             ELSE IF "token" \notin setUserContext
             THEN /\ Return(p, l, "401", "Token required", NoTok, NoTok)
                  /\ UNCHANGED <<blacklist, sessions>>
             ELSE IF ~valid
             THEN /\ Return(p, l, "401", "Invalid token", NoTok, NoTok)
                  /\ UNCHANGED <<blacklist, sessions>>
             ELSE /\ blacklist' = BlacklistToken(HashToken(tok), BlacklistTTL)
                  /\ sessions' = RevokeAllUserSessions(tok.user_id)
                  /\ Return(p, l, "200", "Logged out successfully", NoTok, NoTok)
    /\ Started(p)
    /\ UNCHANGED <<users, loginAttempts, refreshStore, clockVars, cfgVars,
                   loginHist, faults>>

\* POST /verify without a Bearer token in the Authorization header and
\* without a JSON body holding one: ShouldBindJSON fails and
\* AuthHandler.VerifyToken answers before it calls the service.
AuthHandlerVerifyTokenBind(p) ==
    /\ CanStart(p)
    /\ Return(p, [NoLoc EXCEPT !.op = "verify", !.pre = {"noToken"}],
              "BadRequest", "Token required in Authorization header or request body",
              NoTok, NoTok)
    /\ Started(p)
    /\ UNCHANGED <<storeVars, clockVars, cfgVars, loginHist, faults>>

\* The response AuthHandler.VerifyToken writes for the outcome of a call:
\* status, X-Auth-Status, and whether X-User-ID, X-User-Role and X-User-Email
\* are set.
VerifyTokenResponse(out) ==
    CASE out = "valid" ->
            [status |-> 200, auth |-> "authenticated", attested |-> TRUE]
      [] out = "invalid" ->
            [status |-> 401, auth |-> "invalid", attested |-> FALSE]
      [] out = "BadRequest" ->
            [status |-> 400, auth |-> "", attested |-> FALSE]
      [] OTHER ->
            [status |-> 401, auth |-> "failed", attested |-> FALSE]

(***************************************************************************)
(* jwtService.ValidateToken and ValidateRefreshToken called on any token.  *)
(***************************************************************************)

Secrets == {"k1", "k2"}
\* The keys a token may be signed with: the secrets and a stranger's key.
SigningKeys == Secrets \cup {"k3"}
Tokens ==
    [user_id : {1}, email : {"a@x"}, typ : {"access", "refresh", "other"},
     iat : {0}, exp : {0, RefreshExpiry}, key : SigningKeys]

ValidateTokenCall ==
    /\ \E tok \in Tokens :
         last' = [NoCall EXCEPT !.op = "ValidateToken", !.tok = tok,
                    !.out = IF ValidateToken(tok, now) THEN "ok" ELSE "error"]
    /\ UNCHANGED <<storeVars, clockVars, cfgVars, loginHist, faults, calls, pc,
                   loc, histVars, migVars, sysVars>>

ValidateRefreshTokenCall ==
    /\ \E tok \in Tokens :
         last' = [NoCall EXCEPT !.op = "ValidateRefreshToken", !.tok = tok,
                    !.out = IF ValidateRefreshToken(tok, now) THEN "ok" ELSE "error"]
    /\ UNCHANGED <<storeVars, clockVars, cfgVars, loginHist, faults, calls, pc,
                   loc, histVars, migVars, sysVars>>

(***************************************************************************)
(* The wall clock; Redis drops the keys whose time to live has run out.    *)
(***************************************************************************)
Tick ==
    /\ ticks < env.ticks
    /\ \E d \in TickSteps :
         /\ now' = now + d
         /\ refreshStore' = {e \in refreshStore : now + d < e.expires}
         /\ blacklist' = {e \in blacklist : now + d < e.expires}
    /\ ticks' = ticks + 1
    /\ UNCHANGED <<users, sessions, loginAttempts, cfgVars, loginHist, faults,
                   calls, pc, loc, last, histVars, migVars, sysVars>>

(***************************************************************************)
(* The schema migrator (MigrationManager) over a PostgreSQL session.       *)
(***************************************************************************)

\* Version strings (the file name up to the first underscore) as sequences
\* of decimal digits: "9" and "10".
Versions == {<<9>>, <<1, 0>>}

\* strconv.Atoi on a version string of digits.
RECURSIVE Atoi(_)
Atoi(v) ==
    IF v = <<>> THEN 0
    ELSE 10 * Atoi(SubSeq(v, 1, Len(v) - 1)) + v[Len(v)]
Environments == {"development", "production"}
Objects == {"t1", "t2"}

\* Statements of an artifact: CREATE (fails when the object exists), CREATE
\* IF NOT EXISTS, DROP (fails when the object does not exist), and the BEGIN
\* and COMMIT the artifacts wrap their UP region in.
Stmt(kind, obj) == [kind |-> kind, obj |-> obj]
BodyStatements ==
    {Stmt("create", o) : o \in Objects} \cup {Stmt("ensure", "t1")}
Bodies == [1..BodyLen -> BodyStatements]

\* Comment lines, as the words of their text. TemplateMarker is the line
\* "-- <emoji> DOWN MIGRATION (ROLLBACK)" of the generated template and of the
\* shipped artifacts, its emoji written BACK.
DownMarker == <<"--", "DOWN", "MIGRATION">>
TemplateMarker == <<"--", "BACK", "DOWN", "MIGRATION", "(ROLLBACK)">>

\* The DOWN region of a file: none, or a marker line (the one the splitter
\* documents or the one of the generated template and the shipped artifacts)
\* followed by a reverse statement, written out or commented out.
DownRegions ==
    {<<>>} \cup
    {<<Stmt("comment", m), l>> :
        m \in {DownMarker, TemplateMarker},
        l \in {Stmt("drop", "t1"), Stmt("comment", <<"--", "DROP", "TABLE", "t1">>)}}

\* The lines of an artifact file.
FileLines(artifact) ==
    (IF artifact.wrapped
     THEN <<Stmt("begin", "")>> \o artifact.body \o <<Stmt("commit", "")>>
     ELSE artifact.body) \o artifact.down

\* strings.HasPrefix on the words of a line.
HasPrefix(text, prefix) ==
    Len(text) >= Len(prefix) /\ SubSeq(text, 1, Len(prefix)) = prefix

\* splitMigrationContent: the UP region, the lines before the first line
\* that begins with "-- DOWN MIGRATION" or "-- ROLLBACK".
splitMigrationContent(lines) ==
    LET marks == {i \in DOMAIN lines :
                     /\ lines[i].kind = "comment"
                     /\ \/ HasPrefix(lines[i].obj, DownMarker)
                        \/ HasPrefix(lines[i].obj, <<"--", "ROLLBACK">>)}
    IN  IF marks = {} THEN lines
        ELSE SubSeq(lines, 1, (CHOOSE i \in marks : \A j \in marks : i <= j) - 1)

\* parseMigrationFile: the UP region of an artifact, as the statements
\* tx.Exec sends in one query.
UpSQL(artifact) == splitMigrationContent(FileLines(artifact))

\* A session: whether a transaction block is open, whether the last query
\* failed, what the session sees (view) and what is committed (disk).
Session(d) == [open |-> FALSE, failed |-> FALSE, view |-> d, disk |-> d]

Database == [schema |-> schema, tracking |-> tracking]

\* A change made by a statement: inside a transaction block it stays in the
\* view, outside it is committed at once.
Apply(s, v) == IF s.open THEN [s EXCEPT !.view = v]
                         ELSE [s EXCEPT !.view = v, !.disk = v]

\* One statement on the server.  BEGIN inside a block and COMMIT outside
\* one only raise a warning.
ExecStatement(s, stmt) ==
    CASE stmt.kind = "begin" -> [s EXCEPT !.open = TRUE]
      [] stmt.kind = "commit" ->
            IF s.open THEN [s EXCEPT !.open = FALSE, !.disk = s.view] ELSE s
      [] stmt.kind = "create" ->
            IF stmt.obj \in s.view.schema
            THEN [s EXCEPT !.failed = TRUE]
            ELSE Apply(s, [s.view EXCEPT !.schema = @ \cup {stmt.obj}])
      [] stmt.kind = "ensure" ->
            Apply(s, [s.view EXCEPT !.schema = @ \cup {stmt.obj}])
      [] stmt.kind = "drop" ->
            IF stmt.obj \notin s.view.schema
            THEN [s EXCEPT !.failed = TRUE]
            ELSE Apply(s, [s.view EXCEPT !.schema = @ \ {stmt.obj}])
      [] stmt.kind = "comment" -> s
      [] OTHER -> [s EXCEPT !.failed = TRUE]

\* tx.Exec(sql): the statements in order, up to the first one that fails.
RECURSIVE Exec(_, _)
Exec(s, stmts) ==
    IF stmts = <<>> \/ s.failed
    THEN s
    ELSE Exec(ExecStatement(s, Head(stmts)), Tail(stmts))

\* sqlDB.Begin.
Begin(d) == [Session(d) EXCEPT !.open = TRUE]

\* What the session s has added and not committed.
Uncommitted(s) ==
    [schema |-> s.view.schema \ s.disk.schema,
     tracking |-> s.view.tracking \ s.disk.tracking]

\* What the session s has removed and not committed.
Removed(s) ==
    [schema |-> s.disk.schema \ s.view.schema,
     tracking |-> s.disk.tracking \ s.view.tracking]

\* The session s as it reads the database now: what the other sessions have
\* committed since, and its own changes.
Current(s) ==
    [s EXCEPT !.disk = Database,
              !.view = [schema |-> (schema \ Removed(s).schema)
                                       \cup Uncommitted(s).schema,
                        tracking |-> (tracking \ Removed(s).tracking)
                                       \cup Uncommitted(s).tracking]]

\* tx.Rollback (deferred in applyMigration): drops what is not committed.
Rollback(s) == [s EXCEPT !.open = FALSE, !.failed = FALSE, !.view = s.disk]

\* tx.Commit.
Commit(s) == [s EXCEPT !.open = FALSE, !.disk = s.view]

\* calculateChecksum: SHA-256 of the content of the artifact file.
calculateChecksum(content) == <<"sha256", content>>

\* The row applyMigration builds for a migration it loaded.
MigrationRecord(version, environment) ==
    [version |-> version, environment |-> environment,
     checksum |-> calculateChecksum(mdir[version])]

\* INSERT INTO schema_migrations: version is UNIQUE over the whole table.
InsertRecord(s, version, environment) ==
    IF \E r \in s.view.tracking : r.version = version
    THEN [s EXCEPT !.failed = TRUE]
    ELSE Apply(s, [s.view EXCEPT !.tracking =
                      @ \cup {MigrationRecord(version, environment)}])

\* A query the server or the connection fails.
QueryError(s) == [s EXCEPT !.failed = TRUE]

\* getAppliedVersions: the versions recorded for the manager's environment.
getAppliedVersions(environment) ==
    {r.version : r \in {x \in tracking : x.environment = environment}}

\* loadMigrationFiles: the artifacts of the directory in ascending order of
\* version number.
RECURSIVE SortedVersions(_)
SortedVersions(vs) ==
    IF vs = {}
    THEN <<>>
    ELSE LET least == CHOOSE v \in vs : \A w \in vs : Atoi(v) <= Atoi(w)
         IN  <<least>> \o SortedVersions(vs \ {least})

loadMigrationFiles == SortedVersions(DOMAIN mdir)

\* Pending migrations that leave the applied versions out of account.
GetPendingMigrations_All(environment) == loadMigrationFiles

\* GetPendingMigrations: the loaded artifacts not recorded as applied.
GetPendingMigrations(environment) ==
    SelectSeq(loadMigrationFiles, LAMBDA v : v \notin getAppliedVersions(environment))

MigrationResult(version, success, stage, partial) ==
    [version |-> version, success |-> success, stage |-> stage, partial |-> partial]

\* No ValidateSchema call has returned since the last change.
NoValidation == [environment |-> "", outcome |-> "none"]

\* Every artifact of the directory is recorded as applied in environment e.
Settled(e) ==
    \A v \in DOMAIN mdir : \E r \in tracking : r.version = v /\ r.environment = e

\* ApplyMigrations up to its loop: a manager for one environment computes
\* the pending migrations.
ApplyMigrations ==
    /\ mpc = "idle"
    /\ mruns < MaxRuns
    /\ \E e \in Environments :
         /\ menv' = e
         /\ mpending' = GetPendingMigrations(e)
         /\ mpc' = IF GetPendingMigrations(e) = <<>> THEN "idle" ELSE "exec"
         /\ mrun' = [plan |-> GetPendingMigrations(e), executed |-> <<>>,
                     start |-> Database, settled |-> Settled(e), fault |-> FALSE]
    /\ mresults' = <<>>
    /\ mruns' = mruns + 1
    /\ mvalid' = NoValidation
    /\ UNCHANGED <<mdir, schema, tracking, tx, mpre, medits, authVars, sysVars>>

\* A manager that goes on to the next pending migration after a failure.
Fail_Continue(s, stage, partial) ==
    /\ tx' = Rollback(s)
    /\ schema' = Rollback(s).disk.schema
    /\ tracking' = Rollback(s).disk.tracking
    /\ mresults' = Append(mresults, MigrationResult(Head(mpending), FALSE, stage, partial))
    /\ mpending' = Tail(mpending)
    /\ mpc' = IF Tail(mpending) = <<>> THEN "idle" ELSE "exec"

\* The manager gives up on the migration at hand: the deferred Rollback runs
\* and ApplyMigrations returns the error.
Fail(s, stage, partial) ==
    /\ tx' = Rollback(s)
    /\ schema' = Rollback(s).disk.schema
    /\ tracking' = Rollback(s).disk.tracking
    /\ mresults' = Append(mresults, MigrationResult(Head(mpending), FALSE, stage, partial))
    /\ mpc' = "idle"
    /\ UNCHANGED mpending

\* applyMigration: sqlDB.Begin and tx.Exec(migration.UpSQL).
applyMigrationExec ==
    /\ mpc = "exec"
    /\ LET s == Exec(Begin(Database), UpSQL(mdir[Head(mpending)]))
       IN  /\ mpre' = Database
           /\ IF s.failed
              THEN Fail(s, "exec", s.view # Database)
              ELSE /\ tx' = s
                   /\ schema' = s.disk.schema
                   /\ tracking' = s.disk.tracking
                   /\ mpc' = "record"
                   /\ UNCHANGED <<mpending, mresults>>
    /\ mrun' = [mrun EXCEPT !.executed = Append(@, Head(mpending))]
    /\ UNCHANGED <<mdir, menv, mruns, medits, mvalid, authVars, sysVars>>

\* applyMigration: the INSERT into schema_migrations.
applyMigrationRecord ==
    /\ mpc = "record"
    /\ \E fault \in BOOLEAN :
         LET s == IF fault THEN QueryError(Current(tx))
                           ELSE InsertRecord(Current(tx), Head(mpending), menv)
         IN  /\ mrun' = [mrun EXCEPT !.fault = fault]
             /\ IF s.failed
                THEN Fail(s, "record", FALSE)
                ELSE /\ tx' = s
                     /\ schema' = s.disk.schema
                     /\ tracking' = s.disk.tracking
                     /\ mpc' = "commit"
                     /\ UNCHANGED <<mpending, mresults>>
    /\ UNCHANGED <<mdir, menv, mruns, mpre, medits, mvalid, authVars, sysVars>>

\* applyMigration: tx.Commit; ApplyMigrations goes on to the next pending
\* migration.
applyMigrationCommit ==
    /\ mpc = "commit"
    /\ \E fault \in BOOLEAN :
         /\ mrun' = [mrun EXCEPT !.fault = fault]
         /\ IF fault
            THEN Fail(QueryError(Current(tx)), "commit", FALSE)
            ELSE /\ LET s == Commit(Current(tx))
                    IN  /\ tx' = s
                        /\ schema' = s.disk.schema
                        /\ tracking' = s.disk.tracking
                 /\ mresults' = Append(mresults,
                        MigrationResult(Head(mpending), TRUE, "commit", FALSE))
                 /\ mpending' = Tail(mpending)
                 /\ mpc' = IF Tail(mpending) = <<>> THEN "idle" ELSE "exec"
    /\ UNCHANGED <<mdir, menv, mruns, mpre, medits, mvalid, authVars, sysVars>>

\* The tables ValidateSchema requires.
RequiredTables == Objects

\* ValidateSchema, called on a manager for one environment: every required
\* table is in the current schema.
ValidateSchema ==
    /\ mpc = "idle"
    /\ mvalid = NoValidation
    /\ \E e \in Environments :
         mvalid' = [environment |-> e,
                    outcome |-> IF RequiredTables \subseteq schema
                                THEN "passed" ELSE "missing table"]
    /\ UNCHANGED <<mdir, schema, tracking, tx, menv, mpc, mpending, mresults,
                   mruns, mpre, mrun, medits, authVars, sysVars>>

\* An operator edits the file of an artifact: the BEGIN and COMMIT lines
\* around its UP region are added or removed.
EditArtifact ==
    /\ mpc = "idle"
    /\ medits < MaxEdits
    /\ \E v \in DOMAIN mdir :
         mdir' = [mdir EXCEPT ![v].wrapped = ~@]
    /\ medits' = medits + 1
    /\ mvalid' = NoValidation
    /\ UNCHANGED <<schema, tracking, tx, menv, mpc, mpending, mresults, mruns,
                   mpre, mrun, authVars, sysVars>>

\* The artifact generateMigrationTemplate writes: BEGIN and COMMIT around an
\* UP region of comment lines, and a DOWN region after the line of
\* TemplateMarker, commented out.
generateMigrationTemplate ==
    [body |-> <<Stmt("comment", <<"--", "Add", "your", "schema", "changes", "here">>)>>,
     wrapped |-> TRUE,
     down |-> <<Stmt("comment", TemplateMarker),
                Stmt("comment", <<"--", "DROP", "TABLE", "t1">>)>>]

\* The versions handleCreate makes of the time of day, as Versions scaled.
CreatedVersions == {<<2, 0>>}

\* handleCreate (migrate create <name>): the template is written to a new
\* file of the directory, named after the time.
handleCreate ==
    /\ mpc = "idle"
    /\ medits < MaxEdits
    /\ \E v \in CreatedVersions \ DOMAIN mdir :
         mdir' = [w \in DOMAIN mdir \cup {v} |->
                     IF w = v THEN generateMigrationTemplate ELSE mdir[w]]
    /\ medits' = medits + 1
    /\ mvalid' = NoValidation
    /\ UNCHANGED <<schema, tracking, tx, menv, mpc, mpending, mresults, mruns,
                   mpre, mrun, authVars, sysVars>>

\* The migrator at rest over an empty database and the directory dir.
InitMigrator(dir) ==
    /\ mdir \in dir
    /\ schema = {}
    /\ tracking = {}
    /\ tx = Session([schema |-> {}, tracking |-> {}])
    /\ menv = "development"
    /\ mpc = "idle"
    /\ mpending = <<>>
    /\ mresults = <<>>
    /\ mruns = 0
    /\ mpre = [schema |-> {}, tracking |-> {}]
    /\ mrun = [plan |-> <<>>, executed |-> <<>>,
               start |-> [schema |-> {}, tracking |-> {}],
               settled |-> FALSE, fault |-> FALSE]
    /\ medits = 0
    /\ mvalid = NoValidation

(***************************************************************************)
(* SchemaValidator: declared model columns against the live catalogue.     *)
(* Type names are sequences of characters.                                 *)
(***************************************************************************)

CharacterVarying ==
    <<"c", "h", "a", "r", "a", "c", "t", "e", "r", " ", "v", "a", "r", "y",
      "i", "n", "g">>
Varchar == <<"v", "a", "r", "c", "h", "a", "r">>
Text == <<"t", "e", "x", "t">>
TimestampWithoutTimeZone ==
    <<"t", "i", "m", "e", "s", "t", "a", "m", "p", " ", "w", "i", "t", "h",
      "o", "u", "t", " ", "t", "i", "m", "e", " ", "z", "o", "n", "e">>
Timestamp == <<"t", "i", "m", "e", "s", "t", "a", "m", "p">>
Datetime == <<"d", "a", "t", "e", "t", "i", "m", "e">>
Boolean == <<"b", "o", "o", "l", "e", "a", "n">>
Bool == <<"b", "o", "o", "l">>
Integer == <<"i", "n", "t", "e", "g", "e", "r">>
IntAlias == <<"i", "n", "t">>
Int4 == <<"i", "n", "t", "4">>
Bigint == <<"b", "i", "g", "i", "n", "t">>
Int8 == <<"i", "n", "t", "8">>
Uuid == <<"u", "u", "i", "d">>
Char36 == <<"c", "h", "a", "r", "(", "3", "6", ")">>
Bytea == <<"b", "y", "t", "e", "a">>
Unknown == <<"u", "n", "k", "n", "o", "w", "n">>
UserDefined == <<"U", "S", "E", "R", "-", "D", "E", "F", "I", "N", "E", "D">>

\* strings.ToLower on the characters of the type names.
ToLowerChar(c) ==
    CASE c = "U" -> "u" [] c = "S" -> "s" [] c = "E" -> "e" [] c = "R" -> "r"
      [] c = "D" -> "d" [] c = "F" -> "f" [] c = "I" -> "i" [] c = "N" -> "n"
      [] OTHER -> c

ToLowerStr(str) == [i \in DOMAIN str |-> ToLowerChar(str[i])]

\* strings.TrimSpace.
RECURSIVE TrimSpace(_)
TrimSpace(str) ==
    IF str = <<>> THEN str
    ELSE IF Head(str) = " " THEN TrimSpace(Tail(str))
    ELSE IF str[Len(str)] = " " THEN TrimSpace(SubSeq(str, 1, Len(str) - 1))
    ELSE str

\* strings.Contains.
Contains(str, substr) ==
    \E i \in 0..(Len(str) - Len(substr)) :
        SubSeq(str, i + 1, i + Len(substr)) = substr

\* The decimal digits of fmt.Sprintf("%d", n).
RECURSIVE FormatInt(_)
FormatInt(n) ==
    LET digit == <<"0", "1", "2", "3", "4", "5", "6", "7", "8", "9">>[(n % 10) + 1]
    IN  IF n < 10 THEN <<digit>> ELSE Append(FormatInt(n \div 10), digit)

\* mapGoTypeToDBType.
mapGoTypeToDBType(field) ==
    CASE field.DataType = "string" ->
            IF field.Size > 0 /\ field.Size <= 255
            THEN CharacterVarying \o <<"(">> \o FormatInt(field.Size) \o <<")">>
            ELSE Text
      [] field.DataType = "bool" -> Boolean
      [] field.DataType \in {"int", "uint"} -> Integer
      [] field.DataType = "time" -> TimestampWithoutTimeZone
      [] field.DataType = "bytes" -> Bytea
      [] OTHER -> Unknown

\* The table of variations of typesMatch.
variations ==
    {[base |-> CharacterVarying, aliases |-> {Varchar, Text}],
     [base |-> TimestampWithoutTimeZone, aliases |-> {Timestamp, Datetime}],
     [base |-> Boolean, aliases |-> {Bool}],
     [base |-> Integer, aliases |-> {IntAlias, Int4}],
     [base |-> Bigint, aliases |-> {Int8}],
     [base |-> Uuid, aliases |-> {Char36}]}

typesMatch(expected, actual) ==
    LET e == ToLowerStr(TrimSpace(expected))
        a == ToLowerStr(TrimSpace(actual))
    IN  \/ e = a
        \/ \E v \in variations :
              /\ Contains(e, v.base)
              /\ \E alias \in v.aliases : Contains(a, alias)

isSystemColumn(colName) ==
    colName \in {"oid", "tableoid", "xmin", "cmin", "xmax", "cmax", "ctid"}

\* getModelColumns: column name -> expected type.
getModelColumns(model) == [c \in DOMAIN model |-> mapGoTypeToDBType(model[c])]

\* The sequences a range over a Go map can produce from a set of keys.
Orders(S) ==
    {q \in [1..Cardinality(S) -> S] : \A i, j \in DOMAIN q : q[i] = q[j] => i = j}

\* compareColumns: the column names of the three lists of the result.
MissingColumns(modelCols, dbCols) == DOMAIN modelCols \ DOMAIN dbCols

ExtraColumns(modelCols, dbCols) ==
    {c \in DOMAIN dbCols \ DOMAIN modelCols : ~isSystemColumn(c)}

TypeMismatches(modelCols, dbCols) ==
    {c \in DOMAIN modelCols \cap DOMAIN dbCols : ~typesMatch(modelCols[c], dbCols[c])}

\* ValidateTable("users", model) on the call at hand: the declared fields
\* sv.model against a catalogue in which the table exists or not and has the
\* columns sv.db (column name -> data_type).  The table users has no expected
\* foreign key, and a missing index does not change IsValid.  A second call
\* on the same inputs keeps the result of the first in sv.previous.
ValidateTable ==
    LET modelCols == getModelColumns(sv.model)
    IN  /\ sv.pc \in {"called", "done"}
        /\ \E missing \in Orders(MissingColumns(modelCols, sv.db)),
              extra \in Orders(ExtraColumns(modelCols, sv.db)),
              mismatches \in Orders(TypeMismatches(modelCols, sv.db)) :
              sv' = [sv EXCEPT
                     !.pc = IF sv.pc = "called" THEN "done" ELSE "rerun",
                     !.previous = sv.result,
                     !.result =
                       IF ~sv.exists
                       THEN [IsValid |-> FALSE, MissingColumns |-> <<>>,
                             ExtraColumns |-> <<>>, TypeMismatches |-> <<>>]
                       ELSE [IsValid |-> missing = <<>> /\ mismatches = <<>>,
                             MissingColumns |-> missing,
                             ExtraColumns |-> extra,
                             TypeMismatches |-> mismatches]]
        /\ UNCHANGED <<authVars, migVars, bootVars, profVars, libVars>>

(***************************************************************************)
(* userRepository.UpdateProfile over user rows with their profile columns. *)
(***************************************************************************)

allowedProfileFields ==
    {"first_name", "last_name", "bio", "phone_number", "avatar_url",
     "date_of_birth", "gender", "country", "city", "timezone", "language",
     "website", "linkedin", "twitter", "github"}

\* A user row with two of its profile columns and its updated_at column.
WithProfile(u) == u @@ [first_name |-> "", bio |-> "", updated_at |-> 0]

\* The keys a caller puts into the fields map, and the value sent for each.
ProfileKeys == {"first_name", "bio", "password_hash", "is_active"}

NewValue(k) ==
    CASE k = "first_name" -> "Ann"
      [] k = "bio" -> "hello"
      [] k = "password_hash" -> hashPassword("other")
      [] k = "is_active" -> FALSE

\* A fields argument: a Go map, which may be nil; a nil map has no entries.
NilFields == [isNil |-> TRUE, entries |-> <<>>]

FieldMaps ==
    {[isNil |-> FALSE, entries |-> [k \in S |-> NewValue(k)]] :
        S \in SUBSET ProfileKeys} \cup {NilFields}

validateProfileUpdateFields(fields) ==
    IF fields.isNil THEN "fields map cannot be nil"
    ELSE IF DOMAIN fields.entries = {} THEN "no fields to update"
    ELSE "ok"

\* A filter that lets every key through.
filterAllowedFields_All(fields) == fields.entries

\* filterAllowedFields: the entries of the map whose key is allowlisted.
filterAllowedFields(fields) ==
    [k \in DOMAIN fields.entries \cap allowedProfileFields |-> fields.entries[k]]

\* db.Model(&User{}).Where("id = ?", id).Updates(set) on one row: the columns
\* of the map, and updated_at (trigger update_users_updated_at).
Updates(row, set, t) ==
    update_updated_at_column(
        [k \in DOMAIN row |-> IF k \in DOMAIN set THEN set[k] ELSE row[k]], t)

\* userRepository.UpdateProfile(id, fields) up to its first statement: the
\* two checks of the map and db.Where("id = ? AND is_active = ?").First.
UpdateProfile(id, fields) ==
    LET updateFields == filterAllowedFields(fields)
        out == IF validateProfileUpdateFields(fields) # "ok"
               THEN validateProfileUpdateFields(fields)
               ELSE IF DOMAIN updateFields = {} THEN "no valid fields to update"
               ELSE IF GetByID(id) = {} THEN "user not found"
               ELSE "ok"
    IN  /\ prof.at = "idle"
        /\ prof' = IF out = "ok"
                   THEN [id |-> id, fields |-> fields, before |-> <<>>,
                         after |-> <<>>, out |-> "none", at |-> "updates"]
                   ELSE [id |-> id, fields |-> fields, before |-> users,
                         after |-> users, out |-> out, at |-> "idle"]
        /\ UNCHANGED <<storeVars, clockVars, cfgVars, loginHist, faults, calls,
                       pc, loc, last, histVars, migVars, bootVars, valVars,
                       libVars>>

\* userRepository.UpdateProfile, its second statement: UPDATE users SET ...
\* WHERE id = ? AND deleted_at IS NULL.  No row updated is no error.
UpdateProfileUpdates ==
    LET set == filterAllowedFields(prof.fields)
        after == IF users[prof.id].deleted THEN users
                 ELSE [users EXCEPT ![prof.id] = Updates(@, set, now)]
    IN  /\ prof.at = "updates"
        /\ users' = after
        /\ prof' = [prof EXCEPT !.before = users, !.after = after,
                                !.out = "ok", !.at = "idle"]
        /\ UNCHANGED <<sessions, loginAttempts, refreshStore, blacklist,
                       clockVars, cfgVars, loginHist, faults, calls, pc, loc,
                       last, histVars, migVars, bootVars, valVars, libVars>>

\* userRepository.GetByUsername: username = ? AND is_active.
GetByUsername(username) ==
    {i \in DOMAIN users : /\ users[i].username = username
                          /\ users[i].is_active
                          /\ ~users[i].deleted}

\* The usernames of the requests of PUT /profile ("": none given).
ProfileUsernames == {"", "b"}

\* authService.UpdateProfile: userRepo.GetByID(userID).
authServiceUpdateProfileGet(p) ==
    /\ CanStart(p)
    /\ \E id \in DOMAIN users, username \in ProfileUsernames :
         LET l == [NoLoc EXCEPT !.op = "updateProfile", !.username = username]
         IN  IF GetByID(id) = {}
             THEN Return(p, l, "UserNotFound", "user not found", NoTok, NoTok)
             ELSE Continue(p, [l EXCEPT !.user = users[id]],
                           IF username # "" THEN "up_name" ELSE "up_save")
    /\ Started(p)
    /\ UNCHANGED <<storeVars, clockVars, cfgVars, loginHist, faults, profVars>>

\* authService.UpdateProfile: userRepo.GetByUsername(req.Username).
authServiceUpdateProfileName(p) ==
    /\ pc[p] = "up_name"
    /\ IF GetByUsername(loc[p].username) \ {loc[p].user.id} # {}
       THEN Return(p, loc[p], "UsernameTaken", "username already taken",
                   NoTok, NoTok)
       ELSE Continue(p, [loc[p] EXCEPT !.user.username = loc[p].username],
                     "up_save")
    /\ UNCHANGED <<storeVars, clockVars, cfgVars, loginHist, faults, calls,
                   profVars>>

\* authService.UpdateProfile: userRepo.Update(user), the Save of every
\* column of the copy GetByID read; gorm sets UpdatedAt.
authServiceUpdateProfileSave(p) ==
    /\ pc[p] = "up_save"
    /\ LET user == loc[p].user
           row == IF "updated_at" \in DOMAIN user
                  THEN [user EXCEPT !.updated_at = now] ELSE user
       IN  IF \E i \in DOMAIN users : i # row.id /\ users[i].username = row.username
           THEN /\ users' = users
                /\ Return(p, loc[p], "Error", "users_username_key", NoTok, NoTok)
           ELSE /\ users' = Update(row)
                /\ Return(p, loc[p], "ok", "", NoTok, NoTok)
    /\ UNCHANGED <<sessions, loginAttempts, refreshStore, blacklist, clockVars,
                   cfgVars, loginHist, faults, calls, profVars>>

(***************************************************************************)
(* The service process: main, and the connection loops it runs.            *)
(***************************************************************************)

\* No ValidateTable call yet.
NoResult == <<>>
NoTableCall == [pc |-> "idle", exists |-> FALSE, model |-> <<>>, db |-> <<>>,
                result |-> NoResult, previous |-> NoResult]

\* No UpdateProfile call yet.
NoProfileCall ==
    [id |-> 0, fields |-> NilFields, before |-> <<>>, after |-> <<>>,
     out |-> "none", at |-> "idle"]

\* DefaultRetryConfig, durations in seconds.
DefaultRetryConfig ==
    [MaxRetries |-> 5, InitialInterval |-> 1, MaxInterval |-> 30,
     Multiplier |-> 2, MaxElapsedTime |-> 300]

\* Seconds one connection attempt can take: an immediate answer, the
\* five-second ping timeout, and for the database a gorm.Open that blocks,
\* for which the loop sets no timeout.
PingTimeout == 5
SlowOpen == 160
AttemptDurations(target) ==
    IF target = "db" THEN {0, PingTimeout, SlowOpen} ELSE {0, PingTimeout}

\* ctx.Done() of the context the loop runs under, t seconds after its start:
\* main connects to the database under context.Background(), ConnectRedis
\* allows two minutes.
RedisConnectTimeout == 120
Cancelled(target, t) == target = "redis" /\ t >= RedisConnectTimeout

\* The locals of ConnectWithRetry / ConnectRedisWithRetry before the loop.
NewLoop(target) ==
    [target |-> target, attempt |-> 0,
     interval |-> DefaultRetryConfig.InitialInterval, elapsed |-> 0,
     tries |-> 0, waiting |-> FALSE, err |-> "none"]

NoLoop == [NewLoop("none") EXCEPT !.err = "idle"]

\* The state of a process not started yet.
NotStarted == [pc |-> "start", loop |-> NoLoop, opened |-> <<>>, closed |-> <<>>]

\* The shared libraries and the second migration manager at rest.
Unused == [pc |-> "unused"]
InitLib(c, d, s, b, r) ==
    cm \in c /\ docker \in d /\ sm \in s /\ bus \in b /\ rm \in r

InitBoot(S) ==
    /\ boot \in S
    /\ prof = NoProfileCall
    /\ InitLib({Unused}, {Unused}, {Unused}, {Unused}, {Unused})

Connecting == boot.pc \in {"connectDB", "connectRedis"}

\* main: load the configuration and enter ConnectWithRetry.
mainStart ==
    /\ boot.pc = "start"
    /\ boot' = [boot EXCEPT !.pc = "connectDB", !.loop = NewLoop("db")]
    /\ UNCHANGED <<authVars, migVars, profVars, valVars, libVars>>

\* The position of main after the loop at hand returned a handle.
Connected(b) ==
    [b EXCEPT !.pc = IF b.loop.target = "db" THEN "migrate" ELSE "serving",
              !.opened = Append(@, b.loop.target)]

\* main after the loop returned an error: log.Fatal.
Fatal(b, err) == [b EXCEPT !.pc = "fatal", !.loop.err = err]

\* One iteration of the loop, up to the wait: the checks of the context and
\* of the elapsed time, the attempt, and the exit after the last attempt.
ConnectAttempt(ok, dur) ==
    /\ Connecting
    /\ ~boot.loop.waiting
    /\ dur \in AttemptDurations(boot.loop.target)
    /\ LET l == boot.loop
           tried == [boot EXCEPT !.loop.tries = @ + 1, !.loop.elapsed = @ + dur]
       IN  boot' =
             IF Cancelled(l.target, l.elapsed) THEN Fatal(boot, "cancelled")
             ELSE IF l.elapsed > DefaultRetryConfig.MaxElapsedTime
                  THEN Fatal(boot, "timeout")
             ELSE IF ok THEN Connected(tried)
             ELSE IF l.attempt = DefaultRetryConfig.MaxRetries
                  THEN Fatal(tried, "failed")
             ELSE [tried EXCEPT !.loop.waiting = TRUE]
    /\ UNCHANGED <<authVars, migVars, profVars, valVars, libVars>>

\* The exponential backoff: the next interval.
NextInterval(interval) ==
    IF interval * DefaultRetryConfig.Multiplier > DefaultRetryConfig.MaxInterval
    THEN DefaultRetryConfig.MaxInterval
    ELSE interval * DefaultRetryConfig.Multiplier

\* The wait between two attempts: time.After(interval) or ctx.Done().
ConnectWait ==
    /\ Connecting
    /\ boot.loop.waiting
    /\ LET l == boot.loop
       IN  boot' =
             IF Cancelled(l.target, l.elapsed + l.interval)
             THEN Fatal(boot, "cancelled")
             ELSE [boot EXCEPT !.loop.waiting = FALSE,
                               !.loop.elapsed = @ + l.interval,
                               !.loop.interval = NextInterval(@),
                               !.loop.attempt = @ + 1]
    /\ UNCHANGED <<authVars, migVars, profVars, valVars, libVars>>

\* main: database.Migrate, then ConnectRedis.
mainMigrate(ok) ==
    /\ boot.pc = "migrate"
    /\ boot' = IF ok THEN [boot EXCEPT !.pc = "connectRedis", !.loop = NewLoop("redis")]
               ELSE Fatal(boot, "migrate")
    /\ UNCHANGED <<authVars, migVars, profVars, valVars, libVars>>

\* main: SIGINT or SIGTERM arrives, srv.Shutdown.
mainShutdown ==
    /\ boot.pc = "serving"
    /\ boot' = [boot EXCEPT !.pc = "closeDB"]
    /\ UNCHANGED <<authVars, migVars, profVars, valVars, libVars>>

\* main: sqlDB.Close().
mainCloseDB ==
    /\ boot.pc = "closeDB"
    /\ boot' = [boot EXCEPT !.pc = "closeRedis", !.closed = Append(@, "db")]
    /\ UNCHANGED <<authVars, migVars, profVars, valVars, libVars>>

\* main: redisClient.Close().
mainCloseRedis ==
    /\ boot.pc = "closeRedis"
    /\ boot' = [boot EXCEPT !.pc = "stopped", !.closed = Append(@, "redis")]
    /\ UNCHANGED <<authVars, migVars, profVars, valVars, libVars>>

(***************************************************************************)
(* Specifications of the authentication service.                           *)
(***************************************************************************)

\* A user registered earlier: the row Register("a@x", "a", "pw") leaves.
DefaultUser == NewUser(1, "a@x", "a", "pw")
\* The same row after an administrator has cleared is_active.
InactiveUser == [DefaultUser EXCEPT !.is_active = FALSE]

\* The service after start-up over a database holding the rows us, configured
\* with one of the access lifetimes of ax, in a run of the environment e.
InitAuthWith(e, ax, us, sec) ==
    /\ now = 0
    /\ ticks = 0
    /\ accessExpiry \in ax
    /\ secrets \in sec
    /\ users \in us
    /\ sessions = {}
    /\ loginAttempts = <<>>
    /\ refreshStore = {}
    /\ blacklist = {}
    /\ faults = 0
    /\ calls = 0
    /\ env = e
    /\ pc = [p \in Procs |-> "idle"]
    /\ loc = [p \in Procs |-> NoLoc]
    /\ last = NoCall
    /\ issued = IF "holders" \in DOMAIN e
                THEN {GenerateAccessToken(users[i], now) :
                         i \in e.holders \cap DOMAIN users}
                ELSE {}
    /\ redeemed = {}
    /\ redeemedAgain = {}
    /\ freshRotated = {}
    /\ usedRotated = {}
    /\ loggedOut = {}
    /\ preLogout = {}
    /\ wrongCount = [i \in DOMAIN users |-> 0]
    /\ lastWrongAt = [i \in DOMAIN users |-> NoTime]
    /\ registeredOk = {}
    /\ registerIssued = {}

\* The configuration of the documented set-up: two different secrets.
DefaultSecrets == [access |-> "k1", refresh |-> "k2"]
InitAuth(e, ax, us) == InitAuthWith(e, ax, us, {DefaultSecrets})

\* The services of a run in which the migrator has nothing to do.
NoArtifacts == {<<>>}

RegisterStep(p) == RegisterEmail(p) \/ RegisterUsername(p) \/ RegisterCreate(p)

LoginStep(p) ==
    \/ LoginStart(p)
    \/ LoginVerify(p)
    \/ LoginLast(p)
    \/ LoginAudit(p)
    \/ LoginStore(p)
    \/ LoginSession(p)

RefreshStep(p) ==
    \/ RefreshStart(p)
    \/ RefreshGet(p)
    \/ RefreshUser(p)
    \/ RefreshStore(p)
    \/ RefreshDelete(p)

VerifyStep(p) == VerifyStart(p) \/ VerifyUser(p)

LogoutStep(p) == LogoutBlacklist(p) \/ LogoutRevoke(p)

AuthStep(p) ==
    \/ RegisterStep(p)
    \/ LoginStep(p)
    \/ RefreshStep(p)
    \/ VerifyStep(p)
    \/ LogoutStep(p)

\* Requests served concurrently: any handler in flight may take its next step.
Init ==
    /\ InitMigrator(NoArtifacts)
    /\ InitBoot({NotStarted})
    /\ sv = NoTableCall
    /\ InitAuth([calls |-> MaxCalls, faults |-> 0, ticks |-> 1, emails |-> Emails],
             {DefaultAccessExpiry}, {<<>>, <<DefaultUser>>})
Next == (\E p \in Procs : AuthStep(p)) \/ Tick
Spec == Init /\ [][Next]_vars

\* Requests served one after the other, Redis calls that may fail, either
\* access lifetime.
InitSerial ==
    /\ InitMigrator(NoArtifacts)
    /\ InitBoot({NotStarted})
    /\ sv = NoTableCall
    /\ InitAuth([calls |-> MaxSerialCalls, faults |-> MaxFaults, ticks |-> MaxTicks,
              emails |-> {"a@x"}],
             AccessExpiries, {<<>>, <<DefaultUser>>})
NextSerial == AuthStep("p1") \/ Tick
SpecSerial == InitSerial /\ [][NextSerial]_vars

\* Requests served one after the other through the HTTP handlers, account
\* deletion included.
DeleteStep(p) == DeleteAccountGet(p) \/ DeleteAccountDelete(p)
HandlerStep(p) == AuthHandlerLogout(p) \/ AuthHandlerVerifyTokenBind(p)
InitHandlers ==
    /\ InitMigrator(NoArtifacts)
    /\ InitBoot({NotStarted})
    /\ sv = NoTableCall
    /\ InitAuth([calls |-> MaxHandlerCalls, faults |-> MaxFaults, ticks |-> MaxTicks,
              emails |-> {"a@x"}],
             {DefaultAccessExpiry}, {<<>>, <<DefaultUser>>})
NextHandlers == AuthStep("p1") \/ DeleteStep("p1") \/ HandlerStep("p1") \/ Tick
SpecHandlers == InitHandlers /\ [][NextHandlers]_vars

\* The two validations applied to tokens of every type, signing key and
\* expiry, under every configuration of the two secrets.
InitTokens ==
    /\ InitMigrator(NoArtifacts)
    /\ InitBoot({NotStarted})
    /\ sv = NoTableCall
    /\ InitAuthWith([calls |-> 0, faults |-> 0, ticks |-> 0, emails |-> {}],
                 {DefaultAccessExpiry}, {<<>>}, [access : Secrets, refresh : Secrets])
NextTokens == ValidateTokenCall \/ ValidateRefreshTokenCall
SpecTokens == InitTokens /\ [][NextTokens]_vars

\* Concurrent logins of a registered user.
InitLogin ==
    /\ InitMigrator(NoArtifacts)
    /\ InitBoot({NotStarted})
    /\ sv = NoTableCall
    /\ InitAuth([calls |-> MaxCalls, faults |-> 0, ticks |-> 1, emails |-> {"a@x"}],
             {DefaultAccessExpiry}, {<<DefaultUser>>})
NextLogin == (\E p \in Procs : LoginStep(p)) \/ Tick
SpecLogin == InitLogin /\ [][NextLogin]_vars

\* Logins with the email of a registered user, of a deactivated user or of
\* nobody, one after the other.
InitLoginSerial ==
    /\ InitMigrator(NoArtifacts)
    /\ InitBoot({NotStarted})
    /\ sv = NoTableCall
    /\ InitAuth([calls |-> MaxLoginCalls, faults |-> MaxFaults, ticks |-> MaxTicks,
              emails |-> {"a@x"}],
             {DefaultAccessExpiry}, {<<>>, <<DefaultUser>>, <<InactiveUser>>})
NextLoginSerial == LoginStep("p1") \/ Tick
SpecLoginSerial == InitLoginSerial /\ [][NextLoginSerial]_vars

\* The migrator run by an operator, over directories of two artifacts: files
\* with and without BEGIN and COMMIT around their statements, and with or
\* without the DOWN region of the template, its reverse statement written
\* out, after them.
Artifacts ==
    [body : Bodies, wrapped : BOOLEAN,
     down : {<<>>, <<Stmt("comment", TemplateMarker), Stmt("drop", "t2")>>}]
InitMigrate ==
    /\ InitMigrator([Versions -> Artifacts])
    /\ InitBoot({NotStarted})
    /\ sv = NoTableCall
    /\ InitAuth([calls |-> 0, faults |-> 0, ticks |-> 0, emails |-> {}],
                {DefaultAccessExpiry}, {<<>>})
\* migrate up, run again and again over a directory of any content, and
\* migrate create, which adds a file to it.
NextApply ==
    \/ ApplyMigrations
    \/ applyMigrationExec
    \/ applyMigrationRecord
    \/ applyMigrationCommit
    \/ handleCreate
SpecMigrate == InitMigrate /\ [][NextApply]_vars

\* With the operator's editor, which changes a file that may have been
\* applied, and migrate validate.
NextMigrate ==
    \/ NextApply
    \/ EditArtifact
    \/ ValidateSchema

\* The migrator over directories of two artifacts in the shape of the
\* template, with and without a DOWN region.
InitSplit ==
    /\ InitBoot({NotStarted})
    /\ sv = NoTableCall
    /\ InitMigrator([Versions ->
            [body : {<<Stmt("ensure", "t1"), Stmt("create", "t2")>>},
             wrapped : {TRUE}, down : DownRegions]])
    /\ InitAuth([calls |-> 0, faults |-> 0, ticks |-> 0, emails |-> {}],
                {DefaultAccessExpiry}, {<<>>})
SpecSplit == InitSplit /\ [][NextMigrate]_vars

(***************************************************************************)
(* Two migration managers on one database.  ApplyMigrations takes no lock: *)
(* each manager reads the applied versions once and then runs              *)
(* applyMigration for every version it found pending.  The variables       *)
(* schema and tracking hold what is committed; cm[m].tx is the session of  *)
(* manager m, and cm[m].ups the versions whose UP region manager m has     *)
(* had committed.                                                          *)
(***************************************************************************)

Migrators == {"m1", "m2"}

NoMigrator ==
    [pc |-> "idle", pending |-> <<>>,
     tx |-> Session([schema |-> {}, tracking |-> {}]),
     ups |-> <<>>, failed |-> FALSE]

\* The tables the statements name.
Named(stmts) == {stmts[k].obj : k \in DOMAIN stmts} \cap Objects

\* Another session holds uncommitted changes to the objects objs, or an
\* uncommitted tracking row of one of the versions vs: the statement waits
\* for that transaction to end.
Waits(m, objs, vs) ==
    \E o \in Migrators \ {m} :
        \/ Uncommitted(cm[o].tx).schema \cap objs # {}
        \/ \E r \in Uncommitted(cm[o].tx).tracking : r.version \in vs

\* What the managers leave alone.
ConcurrentFrame ==
    UNCHANGED <<mdir, tx, menv, mpc, mpending, mresults, mruns, mpre, mrun,
                medits, mvalid, authVars, bootVars, profVars, valVars,
                docker, sm, bus, rm>>

\* The deferred Rollback and the error return of applyMigration, which ends
\* the loop of ApplyMigrations.
FailBy(m, s) ==
    /\ cm' = [cm EXCEPT ![m].tx = Rollback(s), ![m].pc = "done",
                        ![m].failed = TRUE]
    /\ schema' = Rollback(s).disk.schema
    /\ tracking' = Rollback(s).disk.tracking

\* ApplyMigrations of manager m up to its loop.
ApplyMigrationsBy(m) ==
    /\ ConcurrentFrame
    /\ cm[m].pc = "idle"
    /\ cm' = [cm EXCEPT ![m].pending = GetPendingMigrations(menv),
                        ![m].pc = IF GetPendingMigrations(menv) = <<>>
                                  THEN "done" ELSE "exec"]
    /\ UNCHANGED <<schema, tracking>>

\* applyMigration of manager m: sqlDB.Begin and tx.Exec(migration.UpSQL).
applyMigrationExecBy(m) ==
    /\ ConcurrentFrame
    /\ cm[m].pc = "exec"
    /\ LET version == Head(cm[m].pending)
           s == Exec(Begin(Database), UpSQL(mdir[version]))
       IN  /\ ~Waits(m, Named(UpSQL(mdir[version])), {})
           /\ IF s.failed
              THEN FailBy(m, s)
              ELSE /\ cm' = [cm EXCEPT ![m].tx = s, ![m].pc = "record",
                                 ![m].ups = IF s.open THEN @
                                            ELSE Append(@, version)]
                   /\ schema' = s.disk.schema
                   /\ tracking' = s.disk.tracking

\* applyMigration of manager m: the INSERT into schema_migrations.
applyMigrationRecordBy(m) ==
    /\ ConcurrentFrame
    /\ cm[m].pc = "record"
    /\ LET version == Head(cm[m].pending)
           s == InsertRecord(Current(cm[m].tx), version, menv)
       IN  /\ ~Waits(m, {}, {version})
           /\ IF s.failed
              THEN FailBy(m, s)
              ELSE /\ cm' = [cm EXCEPT ![m].tx = s, ![m].pc = "commit"]
                   /\ schema' = s.disk.schema
                   /\ tracking' = s.disk.tracking

\* applyMigration of manager m: tx.Commit, and the loop goes on.
applyMigrationCommitBy(m) ==
    /\ ConcurrentFrame
    /\ cm[m].pc = "commit"
    /\ LET version == Head(cm[m].pending)
           s == Commit(Current(cm[m].tx))
       IN  /\ cm' = [cm EXCEPT ![m].tx = s,
                        ![m].pending = Tail(@),
                        ![m].pc = IF Tail(cm[m].pending) = <<>>
                                  THEN "done" ELSE "exec",
                        ![m].ups = IF cm[m].tx.open THEN Append(@, version)
                                   ELSE @]
           /\ schema' = s.disk.schema
           /\ tracking' = s.disk.tracking

\* One applied artifact at a time is the shape of every run here: the
\* artifacts create or ensure one table each.
ConcurrentArtifacts ==
    [body : {<<Stmt("create", "t1")>>, <<Stmt("ensure", "t1")>>,
             <<Stmt("ensure", "t2")>>},
     wrapped : BOOLEAN, down : {<<>>}]

InitConcurrentApply ==
    /\ boot = NotStarted
    /\ prof = NoProfileCall
    /\ sv = NoTableCall
    /\ InitLib({[m \in Migrators |-> NoMigrator]}, {Unused}, {Unused}, {Unused},
               {Unused})
    /\ InitMigrator([Versions -> ConcurrentArtifacts])
    /\ InitAuth([calls |-> 0, faults |-> 0, ticks |-> 0, emails |-> {}],
                {DefaultAccessExpiry}, {<<>>})

NextConcurrentApply ==
    \/ \E m \in Migrators : ApplyMigrationsBy(m)
    \/ \E m \in Migrators : applyMigrationExecBy(m)
    \/ \E m \in Migrators : applyMigrationRecordBy(m)
    \/ \E m \in Migrators : applyMigrationCommitBy(m)

SpecConcurrentApply == InitConcurrentApply /\ [][NextConcurrentApply]_vars

(***************************************************************************)
(* The Docker initialisation runner (01-run-migrations.sh) and the         *)
(* migration manager on one database.  A file is named by its version, an  *)
(* underscore and a name; characters are numbers, a digit its value and    *)
(* any other character its code.                                           *)
(***************************************************************************)

\* "_schema", shortened to "_s": the part of every file name after the
\* version, the extension left out.
NameSuffix == <<95, 115>>

\* ${filename%.*}: the file name without its extension.
FileStem(version) == version \o NameSuffix

\* strings.SplitN(fileName, "_", 2)[0]: the characters before the first
\* underscore.
RECURSIVE SplitVersion(_)
SplitVersion(stem) ==
    IF stem = <<>> \/ Head(stem) = Head(NameSuffix)
    THEN <<>>
    ELSE <<Head(stem)>> \o SplitVersion(Tail(stem))

\* The order of the shell's *.sql expansion: file names character by
\* character.
RECURSIVE LexLess(_, _)
LexLess(a, b) ==
    IF a = <<>> THEN b # <<>>
    ELSE IF b = <<>> THEN FALSE
    ELSE IF Head(a) = Head(b) THEN LexLess(Tail(a), Tail(b))
    ELSE Head(a) < Head(b)

RECURSIVE GlobOrder(_)
GlobOrder(stems) ==
    IF stems = {}
    THEN <<>>
    ELSE LET least == CHOOSE a \in stems : \A b \in stems \ {a} : LexLess(a, b)
         IN  <<least>> \o GlobOrder(stems \ {least})

NoDocker == [pc |-> "idle", files |-> <<>>, recorded |-> {}]

\* The row the runner writes: INSERT ... ON CONFLICT (version) DO UPDATE
\* SET applied_by, environment, execution_time_ms.
DockerRecord(rows, stem) ==
    IF \E r \in rows : r.version = stem
    THEN {IF r.version = stem THEN [r EXCEPT !.environment = "docker"] ELSE r :
             r \in rows}
    ELSE rows \cup {[version |-> stem, environment |-> "docker",
                     checksum |-> calculateChecksum(mdir[SplitVersion(stem)])]}

DockerFrame ==
    UNCHANGED <<mdir, tx, menv, mpc, mpending, mresults, mruns, mpre, mrun,
                medits, mvalid, authVars, bootVars, profVars, valVars,
                cm, sm, bus, rm>>

\* The runner starts: the files of the directory in the order of the glob.
dockerStart ==
    /\ DockerFrame
    /\ docker.pc = "idle"
    /\ docker' = [docker EXCEPT
                     !.pc = IF DOMAIN mdir = {} THEN "validate" ELSE "run",
                     !.files = GlobOrder({FileStem(v) : v \in DOMAIN mdir})]
    /\ UNCHANGED <<schema, tracking>>

\* The manager holds uncommitted changes to the tables objs: a statement of
\* another session on them waits for its transaction to end.
WaitsForManager(objs) ==
    tx.open /\ (Uncommitted(Current(tx)).schema \cup Removed(Current(tx)).schema)
                  \cap objs # {}

\* The loop of the runner, first command: psql -v ON_ERROR_STOP=1 -f on the
\* whole file, exit 1 when it fails.
dockerFile ==
    /\ DockerFrame
    /\ docker.pc = "run"
    /\ LET stem == Head(docker.files)
           lines == FileLines(mdir[SplitVersion(stem)])
           s == Exec(Session(Database), lines)
       IN  /\ ~WaitsForManager(Named(lines))
           /\ docker' = [docker EXCEPT !.pc = IF s.failed THEN "failed" ELSE "table"]
           /\ schema' = Rollback(s).disk.schema
           /\ tracking' = Rollback(s).disk.tracking

\* Second command: CREATE TABLE IF NOT EXISTS schema_migrations and its
\* indexes.  The table holds the rows of tracking.
dockerTable ==
    /\ DockerFrame
    /\ docker.pc = "table"
    /\ docker' = [docker EXCEPT !.pc = "record"]
    /\ UNCHANGED <<schema, tracking>>

\* Third command: the row in schema_migrations, and the loop goes on.
dockerRecordRow ==
    /\ DockerFrame
    /\ docker.pc = "record"
    /\ LET stem == Head(docker.files)
       IN  /\ docker' = [docker EXCEPT
                            !.files = Tail(@),
                            !.recorded = @ \cup {SplitVersion(stem)},
                            !.pc = IF Tail(docker.files) = <<>>
                                   THEN "validate" ELSE "run"]
           /\ tracking' = DockerRecord(tracking, stem)
           /\ UNCHANGED schema

\* After the loop: every required table answers a SELECT, or exit 1.
dockerValidate ==
    /\ DockerFrame
    /\ docker.pc = "validate"
    /\ docker' = [docker EXCEPT !.pc = IF RequiredTables \subseteq schema
                                       THEN "status" ELSE "failed"]
    /\ UNCHANGED <<schema, tracking>>

\* The success marker: CREATE TABLE IF NOT EXISTS migration_status.
dockerStatus ==
    /\ DockerFrame
    /\ docker.pc = "status"
    /\ docker' = [docker EXCEPT !.pc = "done"]
    /\ schema' = schema \cup {"migration_status"}
    /\ UNCHANGED tracking

\* The directories the runner and the manager read: artifacts in the shape
\* of the shipped ones and of the template, wrapped or not.
InitDocker ==
    /\ boot = NotStarted
    /\ prof = NoProfileCall
    /\ sv = NoTableCall
    /\ InitLib({Unused}, {NoDocker}, {Unused}, {Unused}, {Unused})
    /\ InitMigrator([Versions -> ConcurrentArtifacts])
    /\ InitAuth([calls |-> 0, faults |-> 0, ticks |-> 0, emails |-> {}],
                {DefaultAccessExpiry}, {<<>>})

NextDocker ==
    \/ dockerStart
    \/ dockerFile
    \/ dockerTable
    \/ dockerRecordRow
    \/ dockerValidate
    \/ dockerStatus
    \/ ApplyMigrations
    \/ applyMigrationExec
    \/ applyMigrationRecord
    \/ applyMigrationCommit

SpecDocker == InitDocker /\ [][NextDocker]_vars

(***************************************************************************)
(* SessionManager (shared/session) over Redis.  sm.keys holds the session  *)
(* records with the time Redis evicts each (<<>>: never), sm.members the   *)
(* set of session ids of each user.  Every goroutine has a stack of        *)
(* frames; a step is the work of the top frame up to its next Redis call,  *)
(* call or return.  The event bus of the manager is nil.                   *)
(***************************************************************************)

Goroutines == {"g1", "g2"}
SessionUsers == {"u1"}
SessionIds == <<"s1", "s2", "s3", "s4">>

\* Config.MaxSessions and Config.DefaultTTL, scaled to the clock of the model.
MaxSessions == 2
SessionDefaultTTL == 2

\* The calls of a run, the last tick of the clock and the frames a
\* goroutine stack holds before the runtime ends the process.
MaxSessionCalls == MaxSessions + 1
MaxClock == 3
MaxStack == 8

Ret(err, val) == [err |-> err, val |-> val]

Frame(fn, at, id, user) ==
    [fn |-> fn, pc |-> at, id |-> id, user |-> user,
     ids |-> <<>>, sessions |-> <<>>]

NoSessionCall == [fn |-> "", id |-> "", err |-> "", removed |-> FALSE]

Depth(p) == Len(sm.stack[p])
Top(p) == sm.stack[p][Depth(p)]
SetTop(stack, f) == [stack EXCEPT ![Len(stack)] = f]
Running(p, fn) == ~sm.crashed /\ Depth(p) > 0 /\ Top(p).fn = fn

\* Redis: the key of session id exists in the store s.
StoredIn(s, id) ==
    /\ id \in DOMAIN s.keys
    /\ s.keys[id].evict = <<>> \/ s.now < s.keys[id].evict[1]
Stored(id) == StoredIn(sm, id)

\* time.Now().UTC().After(session.ExpiresAt).
Expired(session) == sm.now > session.expires

\* client.Set(key, data, ttl): go-redis sends an expiry only when ttl > 0.
KeySet(s, session, ttl) ==
    [s EXCEPT !.keys = [i \in DOMAIN @ \cup {session.id} |->
        IF i = session.id
        THEN [session |-> session,
              evict |-> IF ttl > 0 THEN <<s.now + ttl>> ELSE <<>>]
        ELSE @[i]]]

\* client.Del(key).
KeyDel(s, id) == [s EXCEPT !.keys = [i \in DOMAIN @ \ {id} |-> @[i]]]

\* client.Del(key) sent by goroutine p, which sm.dels remembers until the
\* next call of p.
KeyDelBy(s, p, id) == [KeyDel(s, id) EXCEPT !.dels[p] = @ \cup {id}]

\* client.Expire(key, ttl): EXPIRE with a ttl that is not positive removes
\* the key.
KeyExpire(s, id, ttl) ==
    IF ~StoredIn(s, id) THEN s
    ELSE IF ttl > 0
    THEN [s EXCEPT !.keys[id].evict = <<s.now + ttl>>]
    ELSE KeyDel(s, id)

\* The members of the set of a user, none once Redis has evicted the set.
Members(s, user) ==
    IF s.memberEvict[user] # <<>> /\ s.now >= s.memberEvict[user][1]
    THEN {}
    ELSE s.members[user]

\* client.SAdd, client.SRem and client.Expire on the set of a user.
SetAdd(s, user, id) ==
    [s EXCEPT !.members[user] = Members(s, user) \cup {id},
              !.memberEvict[user] = IF Members(s, user) = {} THEN <<>> ELSE @]
SetRem(s, user, id) ==
    [s EXCEPT !.members[user] = Members(s, user) \ {id}]
SetExpire(s, user, ttl) ==
    IF Members(s, user) = {} THEN s
    ELSE [s EXCEPT !.memberEvict[user] = <<s.now + ttl>>]

\* client.Del on the set of a user.
SetDel(s, user) ==
    [s EXCEPT !.members[user] = {}, !.memberEvict[user] = <<>>]

\* The top frame of p becomes self and calls callee.  A stack that cannot
\* grow ends the process (fatal error: stack overflow).
Called(p, self, callee) ==
    IF Depth(p) >= MaxStack
    THEN [sm EXCEPT !.crashed = TRUE]
    ELSE [sm EXCEPT !.stack[p] = Append(SetTop(@, self), callee)]

\* The top frame of p goes on as self, in the store s.
Continued(s, p, self) == [s EXCEPT !.stack[p] = SetTop(@, self)]

\* The top frame of p returns r, in the store s.
Returned(s, p, r) ==
    [s EXCEPT !.stack[p] = SubSeq(@, 1, Len(@) - 1),
              !.ret[p] = r,
              !.last[p] = IF Depth(p) = 1
                          THEN [fn |-> Top(p).fn, id |-> Top(p).id,
                                err |-> r.err,
                                removed |-> Top(p).id \in s.dels[p]]
                          ELSE @]

SessionFrame ==
    UNCHANGED <<authVars, migVars, bootVars, profVars, valVars,
                cm, docker, bus, rm>>

\* A goroutine enters a call of the manager; ids is the number of session
\* ids its caller made up for it.
Enter(p, frame, ids) ==
    /\ SessionFrame
    /\ ~sm.crashed
    /\ Depth(p) = 0
    /\ sm.calls < MaxSessionCalls
    /\ sm' = [sm EXCEPT !.stack[p] = <<frame>>, !.calls = @ + 1,
                        !.created = @ + ids, !.dels[p] = {}]

CallCreateSession(p) ==
    \E user \in SessionUsers :
        sm.created < Len(SessionIds)
        /\ Enter(p, Frame("CreateSession", "start",
                          SessionIds[sm.created + 1], user), 1)

CallGetSession(p) ==
    \E id \in DOMAIN sm.keys : Enter(p, Frame("GetSession", "get", id, ""), 0)

CallDeleteSession(p) ==
    \E id \in DOMAIN sm.keys : Enter(p, Frame("DeleteSession", "get", id, ""), 0)

CallUpdateSession(p) ==
    \E id \in DOMAIN sm.keys : Enter(p, Frame("UpdateSession", "get", id, ""), 0)

CallRefreshSession(p) ==
    \E id \in DOMAIN sm.keys : Enter(p, Frame("RefreshSession", "get", id, ""), 0)

CallDeleteUserSessions(p) ==
    \E user \in SessionUsers :
        Enter(p, Frame("DeleteUserSessions", "list", "", user), 0)

\* GetSession.
GetSession(p) ==
    /\ SessionFrame
    /\ Running(p, "GetSession")
    /\ LET f == Top(p)
       IN  sm' =
             CASE f.pc = "get" ->
                    IF ~Stored(f.id)
                    THEN Returned(sm, p, Ret("session not found", <<>>))
                    ELSE IF Expired(sm.keys[f.id].session)
                    THEN Called(p, [f EXCEPT !.pc = "expired"],
                                Frame("DeleteSession", "get", f.id, ""))
                    ELSE Returned(sm, p, Ret("", <<sm.keys[f.id].session>>))
               [] f.pc = "expired" ->
                    Returned(sm, p, Ret("session expired", <<>>))

\* DeleteSession.
DeleteSession(p) ==
    /\ SessionFrame
    /\ Running(p, "DeleteSession")
    /\ LET f == Top(p)
           r == sm.ret[p]
       IN  sm' =
             CASE f.pc = "get" ->
                    Called(p, [f EXCEPT !.pc = "got"],
                           Frame("GetSession", "get", f.id, ""))
               [] f.pc = "got" ->
                    IF r.err \notin {"", "session not found"}
                    THEN Returned(sm, p, Ret(r.err, <<>>))
                    ELSE IF r.val = <<>>
                    THEN Returned(KeyDelBy(sm, p, f.id), p, Ret("", <<>>))
                    ELSE Continued(KeyDelBy(sm, p, f.id), p,
                                   [f EXCEPT !.pc = "srem", !.sessions = r.val])
               [] f.pc = "srem" ->
                    Returned(SetRem(sm, f.sessions[1].user, f.id), p,
                             Ret("", <<>>))

\* UpdateSession: the record GetSession returned is written back with the
\* time left until its ExpiresAt.
UpdateSession(p) ==
    /\ SessionFrame
    /\ Running(p, "UpdateSession")
    /\ LET f == Top(p)
           r == sm.ret[p]
       IN  sm' =
             CASE f.pc = "get" ->
                    Called(p, [f EXCEPT !.pc = "got"],
                           Frame("GetSession", "get", f.id, ""))
               [] f.pc = "got" ->
                    IF r.err # ""
                    THEN Returned(sm, p, Ret(r.err, <<>>))
                    ELSE Continued(sm, p,
                                   [f EXCEPT !.pc = "set", !.sessions = r.val])
               [] f.pc = "set" ->
                    Returned(KeySet(sm, f.sessions[1],
                                      f.sessions[1].expires - sm.now),
                             p, Ret("", <<>>))

\* GetUserSessions: SMembers, then GetSession for every id, in the order
\* Redis returned them.
GetUserSessions(p) ==
    /\ SessionFrame
    /\ Running(p, "GetUserSessions")
    /\ LET f == Top(p)
           r == sm.ret[p]
       IN  CASE f.pc = "smembers" ->
                  \E ids \in Orders(Members(sm, f.user)) :
                      sm' = Continued(sm, p, [f EXCEPT !.pc = "each", !.ids = ids])
             [] f.pc = "each" ->
                  sm' = IF f.ids = <<>>
                        THEN Returned(sm, p, Ret("", f.sessions))
                        ELSE Called(p, [f EXCEPT !.pc = "got"],
                                    Frame("GetSession", "get", Head(f.ids), ""))
             [] f.pc = "got" ->
                  sm' = IF r.err # ""
                        THEN Continued(SetRem(sm, f.user, Head(f.ids)), p,
                                 [f EXCEPT !.pc = "each", !.ids = Tail(@)])
                        ELSE Continued(sm, p,
                                 [f EXCEPT !.pc = "each", !.ids = Tail(@),
                                           !.sessions = Append(@, r.val[1])])

\* The session enforceSessionLimit removes: the first of the list that no
\* other was created before.
RECURSIVE Oldest(_)
Oldest(list) ==
    IF Len(list) = 1 THEN list[1]
    ELSE LET rest == Oldest(SubSeq(list, 1, Len(list) - 1))
             tail == list[Len(list)]
         IN  IF tail.created < rest.created THEN tail ELSE rest

\* enforceSessionLimit.
enforceSessionLimit(p) ==
    /\ SessionFrame
    /\ Running(p, "enforceSessionLimit")
    /\ LET f == Top(p)
           r == sm.ret[p]
       IN  sm' =
             CASE f.pc = "list" ->
                    Called(p, [f EXCEPT !.pc = "listed"],
                           Frame("GetUserSessions", "smembers", "", f.user))
               [] f.pc = "listed" ->
                    IF Len(r.val) >= MaxSessions
                    THEN Called(p, [f EXCEPT !.pc = "deleted"],
                                Frame("DeleteSession", "get", Oldest(r.val).id, ""))
                    ELSE Returned(sm, p, Ret("", <<>>))
               [] f.pc = "deleted" ->
                    Returned(sm, p,
                        Ret(IF r.err = "" THEN ""
                            ELSE "failed to remove oldest session", <<>>))

\* CreateSession.
CreateSession(p) ==
    /\ SessionFrame
    /\ Running(p, "CreateSession")
    /\ LET f == Top(p)
           r == sm.ret[p]
           session == [id |-> f.id, user |-> f.user, created |-> sm.now,
                       expires |-> sm.now + SessionDefaultTTL]
       IN  sm' =
             CASE f.pc = "start" ->
                    IF MaxSessions > 0
                    THEN Called(p, [f EXCEPT !.pc = "limited",
                                             !.sessions = <<session>>],
                                Frame("enforceSessionLimit", "list", "", f.user))
                    ELSE Continued(sm, p, [f EXCEPT !.pc = "set",
                                                    !.sessions = <<session>>])
               [] f.pc = "limited" ->
                    IF r.err # ""
                    THEN Returned(sm, p, Ret(r.err, <<>>))
                    ELSE Continued(sm, p, [f EXCEPT !.pc = "set"])
               [] f.pc = "set" ->
                    Continued(KeySet(sm, f.sessions[1],
                                       f.sessions[1].expires - sm.now),
                              p, [f EXCEPT !.pc = "sadd"])
               [] f.pc = "sadd" ->
                    Continued(SetAdd(sm, f.user, f.id), p,
                              [f EXCEPT !.pc = "expire"])
               [] f.pc = "expire" ->
                    Returned(SetExpire(sm, f.user, SessionDefaultTTL), p,
                             Ret("", <<>>))

\* RefreshSession: the record GetSession returned is written back with
\* ExpiresAt = now + DefaultTTL and the time left until then.
RefreshSession(p) ==
    /\ SessionFrame
    /\ Running(p, "RefreshSession")
    /\ LET f == Top(p)
           r == sm.ret[p]
       IN  sm' =
             CASE f.pc = "get" ->
                    Called(p, [f EXCEPT !.pc = "got"],
                           Frame("GetSession", "get", f.id, ""))
               [] f.pc = "got" ->
                    IF r.err # ""
                    THEN Returned(sm, p, Ret(r.err, <<>>))
                    ELSE Continued(sm, p,
                             [f EXCEPT !.pc = "set",
                                       !.sessions = <<[r.val[1] EXCEPT
                                           !.expires = sm.now + SessionDefaultTTL]>>])
               [] f.pc = "set" ->
                    Returned(KeySet(sm, f.sessions[1],
                                      f.sessions[1].expires - sm.now),
                             p, Ret("", <<>>))

\* DeleteUserSessions: DeleteSession for every session GetUserSessions
\* returned, a failure only logged, then the set of the user is deleted.
DeleteUserSessions(p) ==
    /\ SessionFrame
    /\ Running(p, "DeleteUserSessions")
    /\ LET f == Top(p)
           r == sm.ret[p]
       IN  sm' =
             CASE f.pc = "list" ->
                    Called(p, [f EXCEPT !.pc = "listed"],
                           Frame("GetUserSessions", "smembers", "", f.user))
               [] f.pc = "listed" ->
                    Continued(sm, p, [f EXCEPT !.pc = "each", !.sessions = r.val])
               [] f.pc = "each" ->
                    IF f.sessions = <<>>
                    THEN Returned(SetDel(sm, f.user), p, Ret("", <<>>))
                    ELSE Called(p, [f EXCEPT !.pc = "deleted"],
                                Frame("DeleteSession", "get", Head(f.sessions).id, ""))
               [] f.pc = "deleted" ->
                    Continued(sm, p, [f EXCEPT !.pc = "each", !.sessions = Tail(@)])

\* The ttl arguments of the session calls of a RedisManager (0: the key is
\* written without an expiry, and EXPIRE removes it).
SessionTTLs == {0, SessionDefaultTTL}

\* RedisManager.SetSession, DeleteSession and RefreshSession of a manager of
\* the namespace "session" (RedisFactory.CreateSessionManager): one SET, DEL
\* or EXPIRE on the key the SessionManager uses for the same session id.
RedisSetSession ==
    /\ SessionFrame
    /\ ~sm.crashed
    /\ sm.calls < MaxSessionCalls
    /\ \E id \in DOMAIN sm.keys, ttl \in SessionTTLs :
         sm' = [KeySet(sm, [sm.keys[id].session EXCEPT
                               !.expires = sm.now + SessionDefaultTTL], ttl)
                  EXCEPT !.calls = @ + 1]

RedisDeleteSession ==
    /\ SessionFrame
    /\ ~sm.crashed
    /\ sm.calls < MaxSessionCalls
    /\ \E id \in DOMAIN sm.keys :
         sm' = [KeyDel(sm, id) EXCEPT !.calls = @ + 1]

RedisRefreshSession ==
    /\ SessionFrame
    /\ ~sm.crashed
    /\ sm.calls < MaxSessionCalls
    /\ \E id \in DOMAIN sm.keys, ttl \in SessionTTLs :
         sm' = [KeyExpire(sm, id, ttl) EXCEPT !.calls = @ + 1]

\* The clock advances.
SessionTick ==
    /\ SessionFrame
    /\ ~sm.crashed
    /\ sm.now < MaxClock
    /\ sm' = [sm EXCEPT !.now = @ + 1]

NoSessions ==
    [now |-> 0, keys |-> <<>>,
     members |-> [u \in SessionUsers |-> {}],
     memberEvict |-> [u \in SessionUsers |-> <<>>],
     stack |-> [p \in Goroutines |-> <<>>],
     ret |-> [p \in Goroutines |-> Ret("", <<>>)],
     last |-> [p \in Goroutines |-> NoSessionCall],
     dels |-> [p \in Goroutines |-> {}],
     calls |-> 0, created |-> 0, crashed |-> FALSE]

InitSessionsWith(s) ==
    /\ boot = NotStarted
    /\ prof = NoProfileCall
    /\ sv = NoTableCall
    /\ InitLib({Unused}, {Unused}, {s}, {Unused}, {Unused})
    /\ InitMigrator(NoArtifacts)
    /\ InitAuth([calls |-> 0, faults |-> 0, ticks |-> 0, emails |-> {}],
                {DefaultAccessExpiry}, {<<>>})

\* Goroutines that create sessions for one user, on an empty store.
InitSessions == InitSessionsWith(NoSessions)

NextSessions ==
    \/ \E p \in Goroutines : CallCreateSession(p)
    \/ \E p \in Goroutines : CallRefreshSession(p)
    \/ \E p \in Goroutines : CallDeleteUserSessions(p)
    \/ \E p \in Goroutines : CreateSession(p)
    \/ \E p \in Goroutines : enforceSessionLimit(p)
    \/ \E p \in Goroutines : GetUserSessions(p)
    \/ \E p \in Goroutines : GetSession(p)
    \/ \E p \in Goroutines : DeleteSession(p)
    \/ \E p \in Goroutines : RefreshSession(p)
    \/ \E p \in Goroutines : DeleteUserSessions(p)

SpecSessions == InitSessions /\ [][NextSessions]_vars

\* One stored session that expires at the first tick, and goroutines that
\* read, update and delete it while the clock advances.
FirstSession == [id |-> SessionIds[1], user |-> "u1", created |-> 0, expires |-> 1]

InitExpiry ==
    InitSessionsWith([SetAdd(KeySet(NoSessions, FirstSession, 1), "u1",
                             FirstSession.id)
                        EXCEPT !.created = 1])

GoroutineStep(p) ==
    \/ GetSession(p)
    \/ DeleteSession(p)
    \/ UpdateSession(p)
    \/ RefreshSession(p)
    \/ GetUserSessions(p)
    \/ DeleteUserSessions(p)

NextExpiry ==
    \/ \E p \in Goroutines : CallGetSession(p)
    \/ \E p \in Goroutines : CallDeleteSession(p)
    \/ \E p \in Goroutines : CallUpdateSession(p)
    \/ \E p \in Goroutines : CallRefreshSession(p)
    \/ \E p \in Goroutines : CallDeleteUserSessions(p)
    \/ \E p \in Goroutines : GetSession(p)
    \/ \E p \in Goroutines : DeleteSession(p)
    \/ \E p \in Goroutines : UpdateSession(p)
    \/ \E p \in Goroutines : RefreshSession(p)
    \/ \E p \in Goroutines : GetUserSessions(p)
    \/ \E p \in Goroutines : DeleteUserSessions(p)
    \/ RedisSetSession
    \/ RedisDeleteSession
    \/ RedisRefreshSession
    \/ SessionTick

SpecExpiry == InitExpiry /\ [][NextExpiry]_vars

\* Every goroutine that can take a step takes one in the end.
SpecExpiryLive ==
    SpecExpiry /\ \A p \in Goroutines : WF_vars(GoroutineStep(p))

(***************************************************************************)
(* EventBus (shared/events) over Redis pub/sub.  Every service has one     *)
(* bus.  bus.subs holds the pubsub connection Subscribe opened for a       *)
(* service, with the channels it listens on and the messages Redis has     *)
(* delivered to it; bus.spawned the handler goroutines handleEvent has     *)
(* started, bus.invoked the handler calls that have begun.                 *)
(***************************************************************************)

\* Service names, event types, patterns and channel keys are strings as the
\* code builds them, written as the sequences of their characters: the
\* services auth and user, the event type user.created.
Services == {<<"a", "u", "t", "h">>, <<"u", "s", "e", "r">>}
EventTypes == {<<"u", "s", "e", "r", ".", "c", "r", "e", "a", "t", "e", "d">>}
HandlerNames == {"h1"}

\* The patterns SubscribePattern is called with: * and session.*.
Patterns == {<<"*">>, <<"s", "e", "s", "s", "i", "o", "n", ".", "*">>}

\* The two kinds of pubsub connection of a bus: the one Subscribe opens and
\* the one SubscribePattern opens.
Conns == {"subscribe", "psubscribe"}

\* The events published in a run.
MaxEvents == 1

\* channelKey and globalChannelKey: fmt.Sprintf("%s:%s", namespace,
\* eventType) with namespace "events:<service>", and
\* fmt.Sprintf("events:global:%s", eventType).
channelKey(service, eventType) ==
    <<"e", "v", "e", "n", "t", "s", ":">> \o service \o <<":">> \o eventType
globalChannelKey(eventType) ==
    <<"e", "v", "e", "n", "t", "s", ":", "g", "l", "o", "b", "a", "l", ":">> \o eventType

\* Redis matches a channel against a pattern of PSUBSCRIBE as a glob: '*'
\* stands for any run of characters, the empty one and the separators
\* included, '?' for any one character and a backslash takes the next
\* character as it is written.  (Character classes [...] are not modelled;
\* no pattern here holds one.)
RECURSIVE Matches(_, _)
Matches(pattern, channel) ==
    IF pattern = <<>> THEN channel = <<>>
    ELSE IF Head(pattern) = "*"
    THEN \/ Matches(Tail(pattern), channel)
         \/ channel # <<>> /\ Matches(pattern, Tail(channel))
    ELSE IF channel = <<>> THEN FALSE
    ELSE IF Head(pattern) = "\\" /\ Len(pattern) >= 2
    THEN pattern[2] = Head(channel)
         /\ Matches(Tail(Tail(pattern)), Tail(channel))
    ELSE /\ Head(pattern) = "?" \/ Head(pattern) = Head(channel)
         /\ Matches(Tail(pattern), Tail(channel))

NoPubSub == [open |-> FALSE, channels |-> {}, queue |-> <<>>]

NoBus ==
    [handlers |-> [s \in Services |-> [t \in EventTypes |-> <<>>]],
     subs |-> [s \in Services |-> [c \in Conns |-> NoPubSub]],
     closed |-> [s \in Services |-> FALSE],
     publishing |-> [s \in Services |-> <<>>],
     events |-> <<>>,
     spawned |-> {},
     invoked |-> {}]

BusFrame ==
    UNCHANGED <<authVars, migVars, bootVars, profVars, valVars,
                cm, docker, sm, rm>>

\* RegisterHandler: the handler is appended to those of the event type.
RegisterHandler(service) ==
    /\ BusFrame
    /\ \E t \in EventTypes, h \in HandlerNames :
         /\ bus.handlers[service][t] = <<>>
         /\ bus' = [bus EXCEPT !.handlers[service][t] = Append(@, h)]

\* Subscribe: one pubsub connection on the local and the global channel
\* of every event type.  On a bus whose context is cancelled handleMessages
\* closes the connection at once.
Subscribe(service) ==
    /\ BusFrame
    /\ ~bus.closed[service]
    /\ ~bus.subs[service]["subscribe"].open
    /\ \E types \in SUBSET EventTypes \ {{}} :
         bus' = [bus EXCEPT !.subs[service]["subscribe"] =
                    [open |-> TRUE,
                     channels |-> {channelKey(service, t) : t \in types}
                                  \cup {globalChannelKey(t) : t \in types},
                     queue |-> <<>>]]

\* SubscribePattern: one pubsub connection on the local and the global
\* form of every pattern.
SubscribePattern(service) ==
    /\ BusFrame
    /\ ~bus.closed[service]
    /\ ~bus.subs[service]["psubscribe"].open
    /\ \E patterns \in SUBSET Patterns \ {{}} :
         bus' = [bus EXCEPT !.subs[service]["psubscribe"] =
                    [open |-> TRUE,
                     channels |-> {channelKey(service, t) : t \in patterns}
                                  \cup {globalChannelKey(t) : t \in patterns},
                     queue |-> <<>>]]

\* The messages Redis hands to connection c of a service for one PUBLISH on
\* the channel: one when the connection listens on the channel, one for
\* every pattern of the connection that matches it.
Deliveries(service, c, channel) ==
    LET ps == bus.subs[service][c]
    IN  IF ~ps.open THEN 0
        ELSE IF c = "subscribe"
        THEN IF channel \in ps.channels THEN 1 ELSE 0
        ELSE Cardinality({k \in ps.channels : Matches(k, channel)})

Copies(e, n) == [i \in 1..n |-> e]

\* The handlers a published event has to reach: those registered, at the
\* time of Publish, on a bus that receives the global channel of the type
\* of the event.
Expecting(eventType) ==
    {<<s, k>> \in Services \X (1..Cardinality(HandlerNames)) :
        /\ \E c \in Conns : Deliveries(s, c, globalChannelKey(eventType)) > 0
        /\ k \in DOMAIN bus.handlers[s][eventType]}

\* Publish, up to its loop over the two channels.
Publish(service) ==
    /\ BusFrame
    /\ bus.publishing[service] = <<>>
    /\ Len(bus.events) < MaxEvents
    /\ \E t \in EventTypes :
         LET event == [id |-> Len(bus.events) + 1, type |-> t, source |-> service]
         IN  bus' = [bus EXCEPT
                        !.events = Append(@, [event |-> event,
                                              expecting |-> Expecting(t)]),
                        !.publishing[service] =
                            <<[channel |-> channelKey(service, t), event |-> event],
                              [channel |-> globalChannelKey(t), event |-> event]>>]

\* client.Publish on the next channel of the loop: Redis hands the message
\* to every connection that receives the channel.
PublishChannel(service) ==
    /\ BusFrame
    /\ bus.publishing[service] # <<>>
    /\ LET m == Head(bus.publishing[service])
       IN  bus' = [bus EXCEPT
                      !.publishing[service] = Tail(@),
                      !.subs = [s \in Services |-> [c \in Conns |->
                          [bus.subs[s][c] EXCEPT !.queue =
                              @ \o Copies(m.event, Deliveries(s, c, m.channel))]]]]

\* handleMessages takes the next message of its connection and handleEvent
\* starts one goroutine for every handler of the type of the event.
handleEvent(service) ==
    /\ BusFrame
    /\ \E c \in Conns :
         /\ bus.subs[service][c].queue # <<>>
         /\ LET event == Head(bus.subs[service][c].queue)
                handlers == bus.handlers[service][event.type]
            IN  bus' = [bus EXCEPT
                      !.subs[service][c].queue = Tail(@),
                      !.spawned = @ \cup
                          {[service |-> service, handler |-> k, event |-> event.id,
                            nth |-> Cardinality({g \in bus.spawned :
                                         /\ g.service = service
                                         /\ g.handler = k
                                         /\ g.event = event.id}) +
                                    Cardinality({g \in bus.invoked :
                                         /\ g.service = service
                                         /\ g.handler = k
                                         /\ g.event = event.id}) + 1] :
                           k \in DOMAIN handlers}]

\* A handler goroutine runs: h(ctx, event).
HandlerRun ==
    /\ BusFrame
    /\ \E g \in bus.spawned :
         bus' = [bus EXCEPT !.spawned = @ \ {g}, !.invoked = @ \cup {g}]

\* Close: eb.cancel().  The handler goroutines are not in the wait group.
Close(service) ==
    /\ BusFrame
    /\ ~bus.closed[service]
    /\ bus' = [bus EXCEPT !.closed[service] = TRUE]

\* handleMessages finds the context done: pubsub.Close() and return, the
\* messages still waiting on the connection are lost.  While a message
\* waits as well, select takes either case.
handleMessagesDone(service) ==
    /\ BusFrame
    /\ bus.closed[service]
    /\ \E c \in Conns :
         /\ bus.subs[service][c].open
         /\ bus' = [bus EXCEPT !.subs[service][c] = NoPubSub]

InitBus ==
    /\ boot = NotStarted
    /\ prof = NoProfileCall
    /\ sv = NoTableCall
    /\ InitLib({Unused}, {Unused}, {Unused}, {NoBus}, {Unused})
    /\ InitMigrator(NoArtifacts)
    /\ InitAuth([calls |-> 0, faults |-> 0, ticks |-> 0, emails |-> {}],
                {DefaultAccessExpiry}, {<<>>})

NextBus ==
    \/ \E s \in Services : RegisterHandler(s)
    \/ \E s \in Services : Subscribe(s)
    \/ \E s \in Services : Publish(s)
    \/ \E s \in Services : PublishChannel(s)
    \/ \E s \in Services : SubscribePattern(s)
    \/ \E s \in Services : handleEvent(s)
    \/ HandlerRun
    \/ \E s \in Services : Close(s)
    \/ \E s \in Services : handleMessagesDone(s)

SpecBus == InitBus /\ [][NextBus]_vars

(***************************************************************************)
(* RedisManager (shared/redis): the sliding-window rate limiter and the    *)
(* locks.  rm.zset is the sorted set of one rate-limit key (member and     *)
(* score of an entry are the same number), rm.locks the lock keys with     *)
(* their value and the time Redis evicts them (<<>>: never).               *)
(***************************************************************************)

\* limit and window of the RateLimit calls, and the calls of a run.
RateLimitLimit == 2
RateLimitWindow == 3
MaxRateCalls == 4

NoRateCall == [pc |-> "idle", now |-> 0, count |-> 0]

NoLockCall ==
    [op |-> "none", key |-> "", value |-> "", ok |-> FALSE,
     held |-> <<>>, after |-> <<>>]

NoRedis ==
    [now |-> 0,
     zset |-> {}, zevict |-> <<>>,
     rate |-> [p \in Goroutines |-> NoRateCall],
     allowed |-> <<>>,
     returned |-> {},
     calls |-> 0,
     locks |-> <<>>,
     refused |-> FALSE,
     last |-> NoLockCall]

RedisFrame ==
    UNCHANGED <<authVars, migVars, bootVars, profVars, valVars,
                cm, docker, sm, bus>>

\* The sorted set as a command finds it: empty once Redis has evicted the key.
ZSet == IF rm.zevict # <<>> /\ rm.now >= rm.zevict[1] THEN {} ELSE rm.zset

\* RateLimit: now := time.Now().UnixNano() and the four commands queued on
\* the pipeline.  The clock counts nanoseconds: a call that starts after
\* another has returned reads a later time than that call read; calls that
\* run at the same time may read the same one.
RateLimitNow(p) ==
    /\ RedisFrame
    /\ rm.rate[p].pc = "idle"
    /\ rm.calls < MaxRateCalls
    /\ \A t \in rm.returned : t < rm.now
    /\ rm' = [rm EXCEPT !.rate[p] = [pc |-> "zrem", now |-> rm.now, count |-> 0],
                        !.calls = @ + 1]

\* ZREMRANGEBYSCORE key 0 windowStart.
RateLimitZRemRangeByScore(p) ==
    /\ RedisFrame
    /\ rm.rate[p].pc = "zrem"
    /\ rm' = [rm EXCEPT
                 !.zset = {m \in ZSet : ~(0 <= m /\ m <= rm.rate[p].now - RateLimitWindow)},
                 !.zevict = IF ZSet = {} THEN <<>> ELSE @,
                 !.rate[p].pc = "zcard"]

\* ZCARD key.
RateLimitZCard(p) ==
    /\ RedisFrame
    /\ rm.rate[p].pc = "zcard"
    /\ rm' = [rm EXCEPT !.rate[p].count = Cardinality(ZSet),
                        !.rate[p].pc = "zadd"]

\* ZADD key now now.
RateLimitZAdd(p) ==
    /\ RedisFrame
    /\ rm.rate[p].pc = "zadd"
    /\ rm' = [rm EXCEPT !.zset = ZSet \cup {rm.rate[p].now},
                        !.zevict = IF ZSet = {} THEN <<>> ELSE @,
                        !.rate[p].pc = "expire"]

\* EXPIRE key window, and the answer of RateLimit: count < limit.
RateLimitExpire(p) ==
    /\ RedisFrame
    /\ rm.rate[p].pc = "expire"
    /\ rm' = [rm EXCEPT
                 !.zset = ZSet,
                 !.zevict = IF ZSet = {} THEN <<>> ELSE <<rm.now + RateLimitWindow>>,
                 !.allowed = IF rm.rate[p].count < RateLimitLimit
                             THEN Append(@, rm.rate[p].now) ELSE @,
                 !.returned = @ \cup {rm.rate[p].now},
                 !.rate[p] = NoRateCall]

\* The clock advances.
RedisTick ==
    /\ RedisFrame
    /\ rm.now < MaxClock
    /\ rm' = [rm EXCEPT !.now = @ + 1]

InitRedisWith(r) ==
    /\ boot = NotStarted
    /\ prof = NoProfileCall
    /\ sv = NoTableCall
    /\ InitLib({Unused}, {Unused}, {Unused}, {Unused}, {r})
    /\ InitMigrator(NoArtifacts)
    /\ InitAuth([calls |-> 0, faults |-> 0, ticks |-> 0, emails |-> {}],
                {DefaultAccessExpiry}, {<<>>})

InitRateLimit == InitRedisWith(NoRedis)

NextRateLimit ==
    \/ \E p \in Goroutines : RateLimitNow(p)
    \/ \E p \in Goroutines : RateLimitZRemRangeByScore(p)
    \/ \E p \in Goroutines : RateLimitZCard(p)
    \/ \E p \in Goroutines : RateLimitZAdd(p)
    \/ \E p \in Goroutines : RateLimitExpire(p)
    \/ RedisTick

SpecRateLimit == InitRateLimit /\ [][NextRateLimit]_vars

\* The lock keys, the values their callers pass, the ttl arguments (0: the
\* key never expires) and the calls of a run.
LockKeys == {"job"}
LockValues == {"v", "w"}
LockTTLs == {0, 2}
MaxLockCalls == 4

\* The value a lock key holds in the store s, <<>> when the key does not
\* exist or Redis has evicted it.
Holder(s, key) ==
    IF key \in DOMAIN s.locks
       /\ (s.locks[key].evict = <<>> \/ s.now < s.locks[key].evict[1])
    THEN <<s.locks[key].value>>
    ELSE <<>>

\* A ReleaseLock that deletes the key whatever value it holds.
ReleaseScript_Any(s, key, value) ==
    [s EXCEPT !.locks = [k \in DOMAIN @ \ {key} |-> @[k]]]

\* SET key value NX with the ttl: the key is written only when it does not
\* exist.
SetNX(s, key, value, ttl) ==
    IF Holder(s, key) # <<>>
    THEN s
    ELSE [s EXCEPT !.locks = [k \in DOMAIN @ \cup {key} |->
             IF k = key
             THEN [value |-> value,
                   evict |-> IF ttl > 0 THEN <<s.now + ttl>> ELSE <<>>]
             ELSE @[k]]]

\* The script of ReleaseLock: DEL when GET key equals the value passed.
ReleaseScript(s, key, value) ==
    IF Holder(s, key) = <<value>>
    THEN [s EXCEPT !.locks = [k \in DOMAIN @ \ {key} |-> @[k]]]
    ELSE s

\* AcquireLock(key, value, ttl): one SETNX, true when the key was written.
AcquireLock ==
    /\ RedisFrame
    /\ rm.calls < MaxLockCalls
    /\ \E key \in LockKeys, value \in LockValues, ttl \in LockTTLs :
         LET s == SetNX(rm, key, value, ttl)
         IN  rm' = [s EXCEPT
                       !.calls = @ + 1,
                       !.refused = @ \/ s.locks = rm.locks,
                       !.last = [op |-> "acquire", key |-> key, value |-> value,
                                 ok |-> s.locks # rm.locks,
                                 held |-> Holder(rm, key),
                                 after |-> Holder(s, key)]]

\* ReleaseLock(key, value): one EVAL of the script.
ReleaseLock ==
    /\ RedisFrame
    /\ rm.calls < MaxLockCalls
    /\ \E key \in LockKeys, value \in LockValues :
         LET s == ReleaseScript(rm, key, value)
         IN  rm' = [s EXCEPT
                       !.calls = @ + 1,
                       !.last = [op |-> "release", key |-> key, value |-> value,
                                 ok |-> TRUE,
                                 held |-> Holder(rm, key),
                                 after |-> Holder(s, key)]]

InitLocks == InitRedisWith(NoRedis)

NextLocks ==
    \/ AcquireLock
    \/ ReleaseLock
    \/ RedisTick

SpecLocks == InitLocks /\ [][NextLocks]_vars

(***************************************************************************)
(* Properties.                                                             *)
(***************************************************************************)

\* C1: for any refresh token R, among all refresh requests presenting R,
\* concurrent ones included, at most one succeeds.  Tokens that a refresh
\* returned as its new token are left aside: within the second of its issue
\* a refresh returns the presented token itself.
C1_AtMostOneRedeem == \A t \in redeemedAgain : t \in freshRotated \cup usedRotated

\* C2: once refresh(R) has returned success the record of R is gone, so a
\* later refresh(R) that overlaps no other request and meets no Redis error
\* anywhere in the run returns RefreshNotFound.
C2_ReplayNotFound ==
    (last.op = "refresh" /\ "replay" \in last.pre /\ faults = 0)
        => last.out = "RefreshNotFound"

\* C3: after refresh(R) has returned R', the first later refresh presenting
\* R' succeeds and every refresh presenting R' after that one fails (calls
\* that met a Redis error aside).
C3_RotatedOnceOnly ==
    (last.op = "refresh" /\ ~last.fault)
        => /\ "first" \in last.pre => last.out = "ok"
           /\ "later" \in last.pre => last.out # "ok"

\* C4: after logout(user_id, access) has returned successfully,
\* verify(access) answers {valid: false}, whatever the configured access
\* lifetime.
C4_LoggedOutInvalid ==
    (last.op = "verify" /\ "afterLogout" \in last.pre) => last.out = "invalid"

\* C5: after a successful logout no refresh token issued to the user before
\* the logout can be redeemed.
C5_LogoutRevokesRefresh ==
    (last.op = "refresh" /\ "revoked" \in last.pre) => last.out # "ok"

\* C6: failed_login_attempts is incremented atomically: the stored counter
\* equals the number of wrong-password logins written since the last reset.
C6_CounterExact ==
    \A i \in DOMAIN users : users[i].failed_login_attempts = wrongCount[i]

\* C7: of the register requests for an email E, one succeeds and every
\* other, concurrent ones included, returns EmailTaken; one row holds E.
\* Stated for emails given in normalised form, and counting UsernameTaken
\* (the requests may also agree on the username) as the conflict.
C7_LoserEmailTaken ==
    /\ (/\ last.op = "register"
        /\ last.email = ToLower(last.email)
        /\ last.email \in registeredOk
        /\ last.out # "ok")
          => last.out \in {"EmailTaken", "UsernameTaken"}
    /\ \A e \in registeredOk :
         Cardinality({i \in DOMAIN users : users[i].email = ToLower(e)
                                            /\ ~users[i].deleted}) = 1


\* C8: after five consecutive wrong-password logins every login of the
\* account within the next 15 minutes, with the wrong or the correct
\* password, returns Locked.
C8_LockedInWindow ==
    (last.op = "login" /\ "inWindow" \in last.pre) => last.out = "Locked"

\* C9: a login with the correct password once the 15-minute lock has run
\* out succeeds (no Redis error met) and leaves failed_login_attempts = 0
\* and no lock.
C9_UnlockAfterWindow ==
    (last.op = "login" /\ {"lockElapsed", "pwOk"} \subseteq last.pre /\ ~last.fault)
        => /\ last.out = "ok"
           /\ \A i \in GetByEmail(ToLower(last.email)) :
                /\ users[i].failed_login_attempts = 0
                /\ users[i].locked_until = NoTime

\* A login with the correct password after the lock ran out has succeeded.
C9_Witness ==
    /\ last.op = "login"
    /\ {"lockElapsed", "pwOk"} \subseteq last.pre
    /\ last.out = "ok"

\* The result of the applyMigration that ended the last ApplyMigrations call.
LastResult == mresults[Len(mresults)]
UpFailed ==
    /\ mpc = "idle"
    /\ mresults # <<>>
    /\ ~LastResult.success
    /\ LastResult.stage = "exec"

\* C10: when the UP region of an artifact fails part-way, no tracking row
\* for the artifact exists in the manager's environment and the committed
\* database is the one from before the attempt: none of the artifact's
\* schema changes is visible.
C10_FailedUpLeavesNothing ==
    UpFailed =>
        /\ ~\E r \in tracking : r.version = LastResult.version /\ r.environment = menv
        /\ Database = mpre

\* The last ApplyMigrations call ended on a failure of the tracking INSERT or
\* of the commit, after the UP region had run.
RecordFailed ==
    /\ mpc = "idle"
    /\ mresults # <<>>
    /\ ~LastResult.success
    /\ LastResult.stage \in {"record", "commit"}

\* C11: an artifact's UP changes and its tracking record become visible
\* together or not at all: when the tracking INSERT or the commit fails after
\* the UP region ran, the committed database is the one from before the
\* attempt.
C11_UpAndRecordTogether == RecordFailed => Database = mpre

\* C12: a version recorded as applied in one environment can still be applied
\* and recorded in another environment that uses the same tracking table:
\* once its UP region has run there, the tracking INSERT does not fail for
\* the rows of other environments (server errors aside).
C12_OtherEnvironmentRecords ==
    (RecordFailed /\ LastResult.stage = "record" /\ ~mrun.fault)
        => ~\E r \in tracking : /\ r.version = LastResult.version
                                /\ r.environment # menv

\* The versions of the results, in order.
ResultVersions == [i \in 1..Len(mresults) |-> mresults[i].version]
RunFailed == mpc = "idle" /\ mresults # <<>> /\ ~LastResult.success

\* C13: apply() stops at the first failing artifact: the results are the
\* artifacts attempted, a prefix of the pending ones in order, successes
\* followed by the failed one; no UP region ran besides theirs and no artifact
\* ordered after the failed one is recorded in that run.
C13_StopsAtFirstFailure ==
    RunFailed =>
        /\ ResultVersions = SubSeq(mrun.plan, 1, Len(mresults))
        /\ mrun.executed = ResultVersions
        /\ \A i \in 1..(Len(mresults) - 1) : mresults[i].success
        /\ \A i \in (Len(mresults) + 1)..Len(mrun.plan) :
             ~\E r \in tracking : r.version = mrun.plan[i] /\ r.environment = menv

\* A run failed on an artifact while a later one was pending.
C13_Witness == RunFailed /\ Len(mrun.plan) > Len(mresults)

\* C14: a second apply() on a database where the first run applied every
\* artifact applies nothing: schema_migrations and the schema are as they
\* were when the run began, no UP region is executed, no result is returned.
C14_SecondRunApplies_Nothing ==
    mrun.settled =>
        /\ mpc = "idle"
        /\ mrun.executed = <<>>
        /\ mresults = <<>>
        /\ Database = mrun.start

\* A second run began after the first had applied both artifacts.
C14_Witness == mrun.settled /\ mruns = 2 /\ Cardinality(tracking) = 2

\* An artifact recorded as applied in environment e whose file no longer
\* hashes to the recorded checksum.
ChecksumMismatch(e) ==
    \E r \in tracking :
        /\ r.environment = e
        /\ r.version \in DOMAIN mdir
        /\ r.checksum # calculateChecksum(mdir[r.version])

\* C15: when an artifact recorded as applied in the current environment no
\* longer hashes to its recorded checksum, validation fails with a checksum
\* mismatch.
C15_ChecksumMismatchReported ==
    (mvalid # NoValidation /\ ChecksumMismatch(mvalid.environment))
        => mvalid.outcome = "checksum mismatch"

\* C16: the refresh token returned by a successful registration is
\* redeemable: the first refresh presenting it (before any logout of the
\* user, no Redis error met) succeeds.
C16_RegisterTokenRedeemable ==
    (/\ last.op = "refresh"
     /\ "registered" \in last.pre
     /\ last.pre \cap {"replay", "revoked"} = {}
     /\ ~last.fault)
        => last.out = "ok"

\* C17: a request to POST /logout carrying a valid access token (unexpired
\* access bundle, not blacklisted, user active) as Bearer token is answered
\* 200, the status of the one path that blacklists the token.
C17_LogoutAnswers200 ==
    (/\ last.op = "POST /logout"
     /\ {"bundleOk", "userOk"} \subseteq last.pre
     /\ "blacklisted" \notin last.pre)
        => last.out = "200"

\* C18: verify(token) returns {valid: true} only when the token passes
\* access-bundle verification, is not blacklisted and its user exists and is
\* active; in every other case, a transport error of the blacklist lookup
\* included, it returns {valid: false} and no error.
C18_VerifyValidOnlyWhen ==
    (last.op = "verify" /\ last.tok # NoTok)
        => /\ last.out \in {"valid", "invalid"}
           /\ last.out = "valid" <=>
                 /\ {"bundleOk", "userOk"} \subseteq last.pre
                 /\ "blacklisted" \notin last.pre
                 /\ ~last.fault

\* The blacklist lookup of a sound token met a transport error and verify
\* answered {valid: false}.
C18_Witness ==
    /\ last.op = "verify"
    /\ last.fault
    /\ {"bundleOk", "userOk"} \subseteq last.pre
    /\ last.out = "invalid"

\* C19: every /verify response that is not a success has status 401, carries
\* the status header "failed" or "invalid" and none of the attestation
\* headers.
C19_VerifyFailureIs401 ==
    (last.op = "verify" /\ VerifyTokenResponse(last.out).status # 200)
        => /\ VerifyTokenResponse(last.out).status = 401
           /\ VerifyTokenResponse(last.out).auth \in {"failed", "invalid"}
           /\ ~VerifyTokenResponse(last.out).attested

\* C20 as stated: a token signed with the refresh secret is never accepted by
\* ValidateToken and a token signed with the access secret is never accepted
\* by ValidateRefreshToken.
C20_CrossVerificationFails ==
    /\ (last.op = "ValidateToken" /\ last.tok.key = secrets.refresh)
          => last.out = "error"
    /\ (last.op = "ValidateRefreshToken" /\ last.tok.key = secrets.access)
          => last.out = "error"

\* C20, amended: when the two secrets differ, a token signed with the refresh
\* secret is never accepted by ValidateToken and a token signed with the
\* access secret is never accepted by ValidateRefreshToken; and whatever the
\* secrets, a refresh bundle is never accepted by ValidateToken nor an access
\* bundle by ValidateRefreshToken.
C20_CrossVerificationFailsDistinct ==
    /\ (/\ last.op = "ValidateToken"
        /\ \/ last.tok.key = secrets.refresh /\ secrets.access # secrets.refresh
           \/ last.tok.typ = "refresh")
          => last.out = "error"
    /\ (/\ last.op = "ValidateRefreshToken"
        /\ \/ last.tok.key = secrets.access /\ secrets.access # secrets.refresh
           \/ last.tok.typ = "access")
          => last.out = "error"

\* An unexpired bundle of type access signed with the refresh secret, which
\* differs from the access secret, was refused by ValidateToken.
C20_Witness ==
    /\ last.op = "ValidateToken"
    /\ last.tok.typ = "access"
    /\ now < last.tok.exp
    /\ last.tok.key = secrets.refresh
    /\ secrets.access # secrets.refresh
    /\ last.out = "error"

\* C21 as stated: a login for an unknown email and a login for an existing
\* account with a wrong password return the same InvalidCredentials outcome.
C21_SameInvalidCredentials ==
    (/\ last.op = "login"
     /\ \/ "noRow" \in last.pre
        \/ "known" \in last.pre /\ "pwOk" \notin last.pre)
        => last.out = "InvalidCredentials" /\ last.detail = "invalid credentials"

\* C21, amended: a login for an unknown email and a login with a wrong
\* password for an existing account that is not locked at the time return the
\* same InvalidCredentials outcome.
C21_SameInvalidCredentialsUnlocked ==
    (/\ last.op = "login"
     /\ \/ "noRow" \in last.pre
        \/ "known" \in last.pre /\ last.pre \cap {"pwOk", "locked"} = {})
        => last.out = "InvalidCredentials" /\ last.detail = "invalid credentials"

\* A wrong password for an existing, unlocked account was answered
\* InvalidCredentials.
C21_Witness ==
    /\ last.op = "login"
    /\ "known" \in last.pre
    /\ last.pre \cap {"pwOk", "locked"} = {}
    /\ last.out = "InvalidCredentials"

\* C22: a login for an existing account whose is_active flag is false records
\* a LoginAttempt and returns Inactive.
C22_InactiveAnswered ==
    (last.op = "login" /\ "inactiveRow" \in last.pre)
        => last.out = "Inactive" /\ loginAttempts # <<>>

\* Comparison of version strings as strings: a < b lexicographically.
RECURSIVE StrLess(_, _)
StrLess(a, b) ==
    IF b = <<>> THEN FALSE
    ELSE IF a = <<>> THEN TRUE
    ELSE IF Head(a) # Head(b) THEN Head(a) < Head(b)
    ELSE StrLess(Tail(a), Tail(b))

\* C23: apply() executes the pending artifacts in ascending order of their
\* version strings compared as strings.
C23_LexicographicOrder ==
    \A i, j \in DOMAIN mrun.executed :
        i < j => StrLess(mrun.executed[i], mrun.executed[j])

\* The service process from its start to its exit.
InitBootRun ==
    /\ InitBoot({NotStarted})
    /\ sv = NoTableCall
    /\ InitMigrator(NoArtifacts)
    /\ InitAuth([calls |-> 0, faults |-> 0, ticks |-> 0, emails |-> {}],
                {DefaultAccessExpiry}, {<<>>})
NextBoot ==
    \/ mainStart
    \/ \E ok \in BOOLEAN, dur \in AttemptDurations("db") : ConnectAttempt(ok, dur)
    \/ ConnectWait
    \/ \E ok \in BOOLEAN : mainMigrate(ok)
    \/ mainShutdown
    \/ mainCloseDB
    \/ mainCloseRedis
SpecBoot == InitBootRun /\ [][NextBoot]_vars

\* C25: with the default retry configuration, connection establishment makes
\* at most 5 connection attempts in total before it gives up with an error.
C25_AtMostFiveAttempts ==
    boot.loop.tries <= 5

\* The attempts a loop makes with the default configuration never exceed
\* MaxRetries + 1.
AttemptsWithinRetriesPlusOne ==
    boot.loop.tries <= DefaultRetryConfig.MaxRetries + 1

\* C26: on graceful shutdown the store handles are closed in the reverse of
\* the order in which they were initialised.
C26_ClosedInReverseOrder ==
    boot.pc = "stopped" =>
        /\ Len(boot.closed) = Len(boot.opened)
        /\ \A i \in DOMAIN boot.closed :
              boot.closed[i] = boot.opened[Len(boot.opened) + 1 - i]

\* C27: after delete_account(user_id) returns successfully, the user is
\* soft-deleted and every session owned by that user is revoked.
C27_DeleteRevokesSessions ==
    (last.op = "delete" /\ last.out = "ok") =>
        /\ users[last.tok.user_id].deleted
        /\ \A s \in sessions : s.user_id = last.tok.user_id => s.is_revoked

\* UpdateProfile calls for a present and an absent id, on an active and an
\* inactive account whose owner holds an access token, next to a request
\* PUT /profile or DELETE /account, while the clock advances.
ProfileIds == {1, 2}
MaxProfileCalls == 1
InitProfile ==
    /\ InitBoot({NotStarted})
    /\ sv = NoTableCall
    /\ InitMigrator(NoArtifacts)
    /\ InitAuth([calls |-> MaxProfileCalls, faults |-> 0, ticks |-> 1,
                 emails |-> {"a@x"}, holders |-> {1}],
                {DefaultAccessExpiry},
                {<<WithProfile(DefaultUser)>>, <<WithProfile(InactiveUser)>>})
NextProfile ==
    \/ \E id \in ProfileIds, fields \in FieldMaps : UpdateProfile(id, fields)
    \/ UpdateProfileUpdates
    \/ authServiceUpdateProfileGet("p1")
    \/ authServiceUpdateProfileName("p1")
    \/ authServiceUpdateProfileSave("p1")
    \/ DeleteAccountGet("p1")
    \/ DeleteAccountDelete("p1")
    \/ Tick
SpecProfile == InitProfile /\ [][NextProfile]_vars

\* The columns of the rows that a call left as they were.
ColumnsUnchanged(cols) ==
    \A i \in DOMAIN prof.after :
        \A k \in cols : prof.after[i][k] = prof.before[i][k]

UserColumns == DOMAIN WithProfile(DefaultUser)

\* C28 as stated: for any fields map, every non-allowlisted column of the user
\* row is unchanged after update_profile.
C28_NonAllowlistedUnchanged ==
    prof.out # "none" => ColumnsUnchanged(UserColumns \ allowedProfileFields)

\* C28: update_profile never modifies a user column outside the allowlist:
\* for any fields map (for example one containing password_hash), every
\* non-allowlisted column of the user row other than updated_at is unchanged
\* after the call.
C28_NonAllowlistedUnchangedButStamp ==
    prof.out # "none" =>
        ColumnsUnchanged(UserColumns \ (allowedProfileFields \cup {"updated_at"}))

C28_Witness ==
    /\ prof.out = "ok"
    /\ "password_hash" \in DOMAIN prof.fields.entries
    /\ "is_active" \in DOMAIN prof.fields.entries
    /\ prof.after[prof.id].first_name # prof.before[prof.id].first_name

\* C29: update_profile rejects any key outside the allowlist: a call whose
\* fields map contains at least one non-allowlisted key returns an error and
\* updates nothing.
C29_NonAllowlistedKeyRejected ==
    (prof.out # "none" /\ DOMAIN prof.fields.entries \ allowedProfileFields # {}) =>
        prof.out # "ok" /\ prof.after = prof.before

\* The validator over declared fields of every kind and size and live
\* columns of the types the catalogue reports.
ColumnNames == {"email", "bio", "ctid"}
FieldSizes == {0, 255, 500}
Fields == [DataType : {"string", "bool", "int", "time", "uuid"}, Size : FieldSizes]
Varchar255 == Varchar \o <<"(", "2", "5", "5", ")">>
LiveTypes ==
    {CharacterVarying, Varchar255, Text, Boolean, Integer, Bigint,
     TimestampWithoutTimeZone, Uuid, UserDefined}
\* Tables of no column, of one column, and of the columns email and bio, the
\* latter of the type other.
Maps(range, other) ==
    {<<>>} \cup {[c \in {d} |-> t] : d \in ColumnNames, t \in range}
          \cup {[c \in {"email", "bio"} |-> IF c = "email" THEN t ELSE other] :
                   t \in range}
InitValidator ==
    /\ InitBoot({NotStarted})
    /\ sv \in [pc : {"called"},
               exists : BOOLEAN,
               model : Maps(Fields, [DataType |-> "string", Size |-> 0]),
               db : Maps(LiveTypes, Text),
               result : {NoResult},
               previous : {NoResult}]
    /\ InitMigrator(NoArtifacts)
    /\ InitAuth([calls |-> 0, faults |-> 0, ticks |-> 0, emails |-> {}],
                {DefaultAccessExpiry}, {<<>>})
NextValidator == ValidateTable
SpecValidator == InitValidator /\ [][NextValidator]_vars

\* The declared type begins with "character varying(".
DeclaredVarchar(t) ==
    Len(t) > Len(CharacterVarying) /\ SubSeq(t, 1, Len(CharacterVarying) + 1) = CharacterVarying \o <<"(">>

\* C30: a declared character varying(n) column is type-compatible with a live
\* column of the character-varying family (catalogue type character varying
\* or varchar(n)): it is not reported as a type mismatch and does not make
\* its table invalid.
C30_VarcharCompatible ==
    \A c \in DOMAIN sv.model \cap DOMAIN sv.db :
        (/\ sv.pc = "done"
         /\ sv.exists
         /\ DeclaredVarchar(getModelColumns(sv.model)[c])
         /\ sv.db[c] \in {CharacterVarying, Varchar255}) =>
            /\ \A i \in DOMAIN sv.result.TypeMismatches :
                  sv.result.TypeMismatches[i] # c
            /\ (DOMAIN sv.model = {c} => sv.result.IsValid)

\* C31: validator output is deterministic: two runs against the same declared
\* shapes and the same live catalogue produce identical structured results,
\* including the order of the listed columns.
C31_SameResultTwice ==
    sv.pc = "rerun" => sv.result = sv.previous

\* A login of the registered user by one process while another changes the
\* password of that user.
InitLoginRace ==
    /\ InitMigrator(NoArtifacts)
    /\ InitBoot({NotStarted})
    /\ sv = NoTableCall
    /\ InitAuth([calls |-> MaxCalls, faults |-> 0, ticks |-> 0, emails |-> {"a@x"}],
                {DefaultAccessExpiry}, {<<DefaultUser>>})
NextLoginRace ==
    \/ LoginStep("p1")
    \/ ChangePasswordGet("p2")
    \/ ChangePasswordUpdate("p2")
SpecLoginRace == InitLoginRace /\ [][NextLoginRace]_vars

\* The columns of a user row a login may write.
LoginColumns == {"failed_login_attempts", "locked_until", "last_login_at"}

\* C32: a login call changes no column of the user row other than
\* failed_login_attempts, locked_until, last_login_at and last_login_ip; a
\* password change that commits while a login for the same user is in
\* progress is never overwritten by that login.
C32_LoginWritesOnlyLoginColumns ==
    [][LoginStep("p1") =>
          \A i \in DOMAIN users : \A k \in DOMAIN users[i] \ LoginColumns :
              users'[i][k] = users[i][k]]_vars

\* C33: after logout has blacklisted an access token, every protected
\* endpoint (those behind JWTMiddleware.AuthRequired) rejects requests
\* authenticated with that token until the token expires.
C33_BlacklistedTokenRejected ==
    (last.op = "delete" /\ last.tok \in loggedOut) =>
        last.out \notin {"ok", "UserNotFound"}

\* C24: apply() executes only an artifact's UP region: no line located after
\* the artifact's DOWN-region marker line is sent to the database.
C24_OnlyUpRegionSent ==
    \A i \in DOMAIN mrun.executed :
        LET artifact == mdir[mrun.executed[i]]
            sent == {UpSQL(artifact)[k] : k \in DOMAIN UpSQL(artifact)}
        IN  \A k \in 2..Len(artifact.down) : artifact.down[k] \notin sent

\* The number of times the UP region of version v has been committed.
Occurrences(seq, v) == Cardinality({k \in DOMAIN seq : seq[k] = v})
UpCommits(v) == Occurrences(cm["m1"].ups, v) + Occurrences(cm["m2"].ups, v)

\* C34: when two migrator processes run apply() concurrently against the
\* same database and environment, the UP region of each artifact takes
\* effect at most once, and exactly one tracking row exists afterwards for
\* each applied artifact.
C34_UpAtMostOnce ==
    (\A m \in Migrators : cm[m].pc = "done") =>
        \A v \in DOMAIN mdir :
            /\ UpCommits(v) <= 1
            /\ UpCommits(v) = 1 =>
                   Cardinality({r \in tracking : r.version = v}) = 1

\* The runner had executed and recorded the artifact of this version in the
\* database d.
DockerRecorded(d, version) ==
    /\ version \in docker.recorded
    /\ \E r \in d.tracking :
           r.version = FileStem(version) /\ r.environment = "docker"

\* C37: a migration executed and recorded by the Docker initialisation
\* runner is recognised as already applied by the migration manager on the
\* same database, so the manager does not execute that migration again.
C37_DockerRecordRecognised ==
    \A i \in DOMAIN mrun.executed :
        ~DockerRecorded(mrun.start, mrun.executed[i])

\* The sessions of a user the manager holds: stored and not expired.
LiveSessions(user) ==
    {id \in DOMAIN sm.keys :
        /\ Stored(id)
        /\ sm.keys[id].session.user = user
        /\ ~Expired(sm.keys[id].session)}

\* C35: for every user, the number of live sessions held by the session
\* manager never exceeds MaxSessions (when MaxSessions > 0), in every
\* interleaving of concurrent CreateSession calls for that user.
C35_AtMostMaxSessions ==
    MaxSessions > 0 =>
        \A user \in SessionUsers : Cardinality(LiveSessions(user)) <= MaxSessions

\* A GetSession call of goroutine p has read the record of its session and
\* found it stored with an ExpiresAt in the past.
AtExpiredGet(p) ==
    /\ ~sm.crashed
    /\ Depth(p) >= 1
    /\ sm.stack[p][1].fn = "GetSession"
    /\ sm.stack[p][1].pc = "expired"

\* The GetSession call of goroutine p has returned "session expired" and its
\* goroutine has deleted the record.
ExpiredReturned(p) ==
    /\ ~sm.crashed
    /\ Depth(p) = 0
    /\ sm.last[p].fn = "GetSession"
    /\ sm.last[p].err = "session expired"
    /\ sm.last[p].removed

\* C36: GetSession and DeleteSession always terminate: for a session whose
\* record is still stored but whose ExpiresAt is in the past, GetSession
\* returns "session expired" after a bounded number of steps and the record
\* is removed.
C36_ExpiredGetReturns ==
    \A p \in Goroutines : AtExpiredGet(p) ~> ExpiredReturned(p)

\* The calls of handler k of the bus of service s for the event with this id.
Invocations(s, k, id) ==
    Cardinality({g \in bus.invoked :
        /\ g.service = s /\ g.handler = k /\ g.event = id})

\* Nothing is on its way: no Publish in its loop, no message waiting, no
\* handler goroutine waiting to run.
BusQuiet ==
    /\ \A s \in Services :
           /\ bus.publishing[s] = <<>>
           /\ \A c \in Conns : bus.subs[s][c].queue = <<>>
    /\ bus.spawned = {}

\* C38: each handler registered for an event type is invoked exactly once
\* for each published event of that type received by a subscribed bus,
\* events published by the service that subscribes included.  A bus that
\* was closed is not counted.
C38_HandlerInvokedOnce ==
    BusQuiet =>
        \A i \in DOMAIN bus.events :
            \A e \in bus.events[i].expecting :
                ~bus.closed[e[1]] =>
                    Invocations(e[1], e[2], bus.events[i].event.id) = 1

\* C39: RateLimit(key, limit, window) reports allowed for at most limit
\* calls within any interval of length window, calls for the same key that
\* run concurrently included.  A call counts at the time it read the clock;
\* the intervals are those that end at the time of an allowed call.
C39_AtMostLimitPerWindow ==
    \A i \in DOMAIN rm.allowed :
        Cardinality({j \in DOMAIN rm.allowed :
            /\ rm.allowed[i] - RateLimitWindow < rm.allowed[j]
            /\ rm.allowed[j] <= rm.allowed[i]}) <= RateLimitLimit

\* C40: while a lock acquired with AcquireLock(key, v) has not expired, no
\* other AcquireLock on the same key succeeds, and ReleaseLock(key, w) with
\* w different from v never removes it.
C40_LockHeld ==
    /\ (rm.last.op = "acquire" /\ rm.last.held # <<>>) =>
           ~rm.last.ok /\ rm.last.after = rm.last.held
    /\ (rm.last.op = "release" /\ rm.last.held # <<>>
           /\ rm.last.held # <<rm.last.value>>) =>
           rm.last.after = rm.last.held

\* A ReleaseLock with another value has run on a held lock, after an
\* AcquireLock on a held lock was refused.
C40_Witness ==
    /\ rm.last.op = "release"
    /\ rm.last.held # <<>>
    /\ rm.last.held # <<rm.last.value>>
    /\ rm.refused

=============================================================================
